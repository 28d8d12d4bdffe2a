---------------------------- MODULE TickDeadline ----------------------------
(***************************************************************************)
(* Durations and deadlines: TickTimer::ticks() and the calls that wait     *)
(* until a time_point, all written as ...For(time - Clock::now()) (sleep   *)
(* in thread.hpp, tryAcquireUntil, tryLockUntil, trySendUntil and so on).  *)
(*                                                                         *)
(* Time runs in units, Unit of which make a tick.  The tick counter and    *)
(* every TickTimer::duration are unsigned of one width and wrap at Modulus *)
(* (2^32 in the code); a clock like std::chrono::steady_clock has a signed *)
(* representation instead and reads units, not ticks.                      *)
(***************************************************************************)
EXTENDS Integers

CONSTANTS
    Modulus,    \* 2^(width of Ulong), scaled down
    Unit,       \* units of time in a tick
    MaxAhead,   \* bound: how far ahead deadlines are set, in units
    MaxLate     \* bound for each clock: how late after its deadline a call is
                \* made, in units

Clocks == {"TickTimer", "signed"}

ASSUME DeadlineAssumption ==
    /\ Modulus \in Nat /\ Modulus > 2
    /\ Unit \in Nat \ {0}
    /\ MaxAhead \in Nat
    /\ MaxLate \in [Clocks -> Nat]

VARIABLES
    tick,       \* tx_time_get()
    sub,        \* units since the last tick
    call,       \* "idle", "armed" (deadline computed, not yet called), "asleep"
    clock,      \* whose time_point the deadline is
    deadline,   \* the deadline as a TickTimer::time_point
    ahead,      \* units from now to the deadline, negative once it passed;
                \* it stands still while nobody waits
    left        \* ticks of the sleep still to go

deadlineVars == <<tick, sub, call, clock, deadline, ahead, left>>

waitForever == Modulus - 1

\* Bound: how long a sleep beyond its deadline is followed.
MaxOver == 2 * Unit

DeadlineTypeOK ==
    /\ tick \in 0..Modulus - 1
    /\ sub \in 0..Unit - 1
    /\ call \in {"idle", "armed", "asleep"}
    /\ clock \in Clocks
    /\ deadline \in 0..Modulus - 1
    /\ ahead \in Int /\ ahead <= MaxAhead
    /\ left \in 0..Modulus - 1

DeadlineInit ==
    /\ tick \in 0..Modulus - 1
    /\ sub = 0
    /\ call = "idle"
    /\ clock = "signed"
    /\ deadline = 0
    /\ ahead = 0
    /\ left = 0

(***************************************************************************)
(* TickTimer::ticks() of a duration of d counts, per of which make a tick: *)
(* zero for a negative count, else std::chrono::ceil, whose cast narrows   *)
(* to the width of the representation before it is rounded up.             *)
(***************************************************************************)
Truncated(d, per) == (d \div per) % Modulus

\* Faults: no regard to a negative count, and rounding down.
TicksUnclamped(d, per) ==
    IF Truncated(d, per) * per < d THEN (Truncated(d, per) + 1) % Modulus
    ELSE Truncated(d, per)

TicksTruncated(d, per) == IF d < 0 THEN 0 ELSE Truncated(d, per)

Ticks(d, per) ==
    IF d < 0 THEN 0
    ELSE IF Truncated(d, per) * per < d THEN (Truncated(d, per) + 1) % Modulus
    ELSE Truncated(d, per)

\* Fault: a difference that does not wrap.
TicksUntilUnwrapped ==
    IF clock = "TickTimer" THEN Ticks(deadline - tick, 1) ELSE Ticks(ahead, Unit)

\* ticks(time - Clock::now()): the difference of two TickTimer::time_points is
\* unsigned, the one of two signed time_points is what it should be.
TicksUntil ==
    IF clock = "TickTimer" THEN Ticks((deadline - tick) % Modulus, 1)
    ELSE Ticks(ahead, Unit)

-----------------------------------------------------------------------------
\* Fault: the sum of a time_point and a duration does not wrap.
ArmUnwrapped(k, d) ==
    /\ call = "idle"
    /\ clock' = k
    /\ call' = "armed"
    /\ k = "TickTimer" => d % Unit = 0
    /\ deadline' = tick + d \div Unit
    /\ ahead' = IF k = "TickTimer" THEN d - sub ELSE d
    /\ UNCHANGED <<tick, sub, left>>

\* The application computes a deadline: a whole number of ticks from the current
\* one by TickTimer::now(), any number of units by a signed clock.
Arm(k, d) ==
    /\ call = "idle"
    /\ clock' = k
    /\ call' = "armed"
    /\ k = "TickTimer" => d % Unit = 0
    /\ deadline' = (tick + d \div Unit) % Modulus
    /\ ahead' = IF k = "TickTimer" THEN d - sub ELSE d
    /\ UNCHANGED <<tick, sub, left>>

\* sleepUntil(): tx_thread_sleep of no ticks returns at once.
SleepUntil ==
    /\ call = "armed"
    /\ left' = TicksUntil
    /\ call' = IF TicksUntil = 0 THEN "idle" ELSE "asleep"
    /\ UNCHANGED <<tick, sub, clock, deadline, ahead>>

\* Time goes on by a unit; the last one of a tick raises the tick interrupt,
\* which counts and ends the sleep that has no ticks left.
Elapse ==
    /\ call = "armed" => ahead > -MaxLate[clock]
    /\ call = "asleep" => ahead > -MaxOver
    /\ ahead' = IF call = "idle" THEN ahead ELSE ahead - 1
    /\ \/ /\ sub < Unit - 1
          /\ sub' = sub + 1
          /\ UNCHANGED <<tick, call, left>>
       \/ /\ sub = Unit - 1
          /\ sub' = 0
          /\ tick' = (tick + 1) % Modulus
          /\ IF call = "asleep" /\ left # waitForever
             THEN /\ left' = left - 1
                  /\ call' = IF left = 1 THEN "idle" ELSE call
             ELSE UNCHANGED <<left, call>>
    /\ UNCHANGED <<clock, deadline>>

DeadlineNext == (\E k \in Clocks, d \in 0..MaxAhead : Arm(k, d)) \/ SleepUntil \/ Elapse

DeadlineSpec == DeadlineInit /\ [][DeadlineNext]_deadlineVars

-----------------------------------------------------------------------------
(***************************************************************************)
(* Properties                                                              *)
(***************************************************************************)

(***************************************************************************)
(* A sleep until a deadline ends within a tick of it: it never lasts to a  *)
(* tick after the deadline, and what it may end too early is less than a   *)
(* tick (the call is made somewhere inside a tick, and ticks are whole).   *)
(***************************************************************************)
NeverOversleeps == call = "asleep" => ahead > -Unit

WakesWithinATick ==
    [][call = "asleep" /\ call' = "idle" => ahead' < Unit /\ ahead' > -Unit]_deadlineVars

(***************************************************************************)
(* "causes the calling thread to suspend for the specified time"           *)
(* (thread.hpp:24): a call with a deadline of TickTimer's own clock does    *)
(* not return before the deadline, whether it suspended the thread or not. *)
(***************************************************************************)
NeverEarly ==
    [][clock = "TickTimer" /\ call # "idle" /\ call' = "idle" => ahead' <= 0]_deadlineVars
=============================================================================
