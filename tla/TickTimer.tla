------------------------------ MODULE TickTimer ------------------------------
(***************************************************************************)
(* One TickTimer (tickTimer.hpp, tickTimer.cpp): the wrapper keeps the     *)
(* parameters of the timer (m_timeoutTicks, m_type, m_activationType)      *)
(* beside the kernel's timer block, and reset() changes both in several    *)
(* steps, between which other threads and the tick interrupt run.          *)
(* The kernel timer is modelled by what its four services do: changing a   *)
(* running timer does nothing (and says success), changing to zero ticks   *)
(* is an error, and neither a running timer nor one with no ticks left can *)
(* be activated.                                                           *)
(***************************************************************************)
EXTENDS Naturals

CONSTANTS
    Callers,    \* the contexts that use the timer
    MaxTicks,   \* bound: the largest timeout
    Serial      \* TRUE: calls on the timer do not overlap

ASSUME TimerAssumption ==
    /\ MaxTicks \in Nat \ {0}
    /\ Serial \in BOOLEAN

VARIABLES
    exists,     \* between the constructor and the destructor
    m,          \* the wrapper's members: ticks, type and activation
    active,     \* the kernel timer is in the timer list
    remaining,  \* tx_timer_internal_remaining_ticks
    reload,     \* tx_timer_internal_re_initialize_ticks
    pc,         \* the step of reset() a caller is at
    request     \* the arguments of its reset()

vars == <<exists, m, active, remaining, reload, pc, request>>
native == <<active, remaining, reload>>

Type == {"periodic", "periodicImmediate", "oneShot"}
ActivationType == {"noActivate", "autoActivate"}
Parameters == [ticks : 0..MaxTicks, type : Type, activation : ActivationType]

TypeOK ==
    /\ exists \in BOOLEAN
    /\ m \in Parameters
    /\ active \in BOOLEAN
    /\ remaining \in 0..MaxTicks
    /\ reload \in 0..MaxTicks
    /\ pc \in [Callers -> {"idle", "change", "assign", "activate"}]
    /\ request \in [Callers -> Parameters]

\* What the constructor and reset() make of a timeout and a type.
InitialTicks(p) == IF p.type = "periodicImmediate" THEN 1 ELSE p.ticks
ReloadTicks(p) == IF p.type = "oneShot" THEN 0 ELSE p.ticks

\* The constructor.  tx_timer_create refuses zero initial ticks: assert.
Init ==
    /\ exists = TRUE
    /\ m \in Parameters
    /\ InitialTicks(m) > 0
    /\ active = (m.activation = "autoActivate")
    /\ remaining = InitialTicks(m)
    /\ reload = ReloadTicks(m)
    /\ pc = [c \in Callers |-> "idle"]
    /\ request = [c \in Callers |-> m]

\* Caller c may start a call.
Free(c) ==
    /\ exists
    /\ pc[c] = "idle"
    /\ Serial => \A o \in Callers : pc[o] = "idle"

-----------------------------------------------------------------------------
\* Fault: the members are assigned before the kernel accepts the change.
ResetAssignsFirst(c, p) ==
    /\ Free(c)
    /\ active' = FALSE
    /\ m' = p
    /\ request' = [request EXCEPT ![c] = p]
    /\ pc' = [pc EXCEPT ![c] = "change"]
    /\ UNCHANGED <<exists, remaining, reload>>

\* Fault: the timer is not deactivated before the change.
ResetWhileActive(c, p) ==
    /\ Free(c)
    /\ request' = [request EXCEPT ![c] = p]
    /\ pc' = [pc EXCEPT ![c] = "change"]
    /\ UNCHANGED <<exists, m, native>>

(***************************************************************************)
(* reset(timeout, type, activationType): deactivate() first ...            *)
(***************************************************************************)
Reset(c, p) ==
    /\ Free(c)
    /\ active' = FALSE
    /\ request' = [request EXCEPT ![c] = p]
    /\ pc' = [pc EXCEPT ![c] = "change"]
    /\ UNCHANGED <<exists, m, remaining, reload>>

\* ... the overloads take what they are not given from the members ...
ResetTimeout(c, ticks) == Reset(c, [m EXCEPT !.ticks = ticks])
ResetTimeoutAndType(c, ticks, type) ==
    Reset(c, [m EXCEPT !.ticks = ticks, !.type = type])
ResetTimeoutAndActivation(c, ticks, activation) ==
    Reset(c, [m EXCEPT !.ticks = ticks, !.activation = activation])
ResetAgain(c) == Reset(c, m)

\* ... then tx_timer_change, whose error reset() returns ...
ResetChange(c) ==
    /\ pc[c] = "change"
    /\ \/ /\ InitialTicks(request[c]) = 0
          /\ pc' = [pc EXCEPT ![c] = "idle"]
          /\ UNCHANGED <<remaining, reload>>
       \/ /\ InitialTicks(request[c]) > 0
          /\ pc' = [pc EXCEPT ![c] = "assign"]
          /\ IF active
             THEN UNCHANGED <<remaining, reload>>
             ELSE /\ remaining' = InitialTicks(request[c])
                  /\ reload' = ReloadTicks(request[c])
    /\ UNCHANGED <<exists, m, active, request>>

\* Fault: activation goes by the member's old value.
ResetByOldActivation(c) ==
    /\ pc[c] = "assign"
    /\ m' = request[c]
    /\ pc' = [pc EXCEPT ![c] =
                IF m.activation = "autoActivate" THEN "activate" ELSE "idle"]
    /\ UNCHANGED <<exists, native, request>>

\* ... the members, which nothing reads one by one ...
ResetAssign(c) ==
    /\ pc[c] = "assign"
    /\ m' = request[c]
    /\ pc' = [pc EXCEPT ![c] =
                IF request[c].activation = "autoActivate" THEN "activate" ELSE "idle"]
    /\ UNCHANGED <<exists, native, request>>

\* tx_timer_activate: an error for a running and for a spent timer.
Activated == active' = (active \/ remaining > 0)

\* ... and activate(), whose error reset() returns too.
ResetActivate(c) ==
    /\ pc[c] = "activate"
    /\ Activated
    /\ pc' = [pc EXCEPT ![c] = "idle"]
    /\ UNCHANGED <<exists, m, remaining, reload, request>>

-----------------------------------------------------------------------------
Activate(c) ==
    /\ Free(c)
    /\ Activated
    /\ UNCHANGED <<exists, m, remaining, reload, pc, request>>

\* tx_timer_deactivate keeps the ticks that are left.
Deactivate(c) ==
    /\ Free(c)
    /\ active' = FALSE
    /\ UNCHANGED <<exists, m, remaining, reload, pc, request>>

\* The tick interrupt and, at the last tick, the expiration: a periodic timer
\* starts anew, the others leave the list with no ticks left.
Tick ==
    /\ active
    /\ \/ remaining > 1 /\ remaining' = remaining - 1 /\ UNCHANGED active
       \/ remaining = 1 /\ remaining' = reload /\ active' = (reload > 0)
    /\ UNCHANGED <<exists, m, reload, pc, request>>

\* The destructor, with nobody inside a call; tx_timer_delete takes the timer off
\* the list.
Destroy ==
    /\ exists
    /\ \A c \in Callers : pc[c] = "idle"
    /\ exists' = FALSE
    /\ active' = FALSE
    /\ UNCHANGED <<m, remaining, reload, pc, request>>

ResetStep(c) == ResetChange(c) \/ ResetAssign(c) \/ ResetActivate(c)

Next ==
    \/ \E c \in Callers :
          \/ \E p \in Parameters : Reset(c, p)
          \/ ResetAgain(c)
          \/ \E ticks \in 0..MaxTicks :
                \/ ResetTimeout(c, ticks)
                \/ \E type \in Type : ResetTimeoutAndType(c, ticks, type)
                \/ \E a \in ActivationType : ResetTimeoutAndActivation(c, ticks, a)
          \/ ResetStep(c) \/ Activate(c) \/ Deactivate(c)
    \/ Tick
    \/ Destroy

Spec == Init /\ [][Next]_vars

\* A caller inside reset() gets the core and goes on.
FairSpec == Spec /\ \A c \in Callers : WF_vars(ResetStep(c))

-----------------------------------------------------------------------------
(***************************************************************************)
(* Properties                                                              *)
(***************************************************************************)

(***************************************************************************)
(* The members describe the kernel timer: outside reset(), failed or not,  *)
(* the timer repeats every m_timeoutTicks ticks or not at all, as m_type   *)
(* says, and never has longer to go than m_timeoutTicks.  reset() without  *)
(* arguments relies on it (tickTimer.cpp:28-31).                           *)
(***************************************************************************)
MembersDescribeTimer ==
    (\A c \in Callers : pc[c] = "idle")
        => /\ reload = ReloadTicks(m)
           /\ remaining <= (IF m.ticks > 0 THEN m.ticks ELSE 1)

(***************************************************************************)
(* "change timeout or type" (tickTimer.hpp:67): when tx_timer_change has   *)
(* said success the kernel timer has the requested timeout and type.       *)
(***************************************************************************)
ChangeTakesEffect ==
    \A c \in Callers : pc[c] = "assign" =>
        remaining = InitialTicks(request[c]) /\ reload = ReloadTicks(request[c])

(***************************************************************************)
(* The activation at the end of reset() is never refused: the timer is     *)
(* stopped and has ticks to go, an expired one-shot included               *)
(* (tickTimer.hpp:68).                                                     *)
(***************************************************************************)
ResetCanActivate ==
    \A c \in Callers : pc[c] = "activate" => ~active /\ remaining > 0

(***************************************************************************)
(* A reset() that asks for activation, with a timeout the kernel accepts,  *)
(* leaves the timer running: the deactivation it starts with is undone     *)
(* (tickTimer.hpp:136 and 152-155).                                        *)
(***************************************************************************)
ResetStarts ==
    \A c \in Callers :
        (/\ pc[c] = "change"
         /\ request[c].activation = "autoActivate"
         /\ InitialTicks(request[c]) > 0) ~> active
=============================================================================
