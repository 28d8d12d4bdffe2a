-------------------------- MODULE TickTimerProofs --------------------------
(***************************************************************************)
(* reset() by any number of callers whose calls on the timer do not        *)
(* overlap: wrapper and kernel timer agree whenever no reset() is under    *)
(* way, whatever sequence of resets, failed ones included, led there.      *)
(***************************************************************************)
EXTENDS TickTimer, TickDeadline, TLAPS

Agree ==
    /\ reload = ReloadTicks(m)
    /\ remaining <= (IF m.ticks > 0 THEN m.ticks ELSE 1)

OneInside == \A c, d \in Callers : pc[c] # "idle" /\ pc[d] # "idle" => c = d

\* What each step of reset() finds.
Stages ==
    \A c \in Callers :
        /\ pc[c] # "idle" => ~active
        /\ pc[c] \in {"change", "activate"} => Agree
        /\ pc[c] \in {"assign", "activate"} => remaining > 0
        /\ pc[c] = "assign" =>
              remaining = InitialTicks(request[c]) /\ reload = ReloadTicks(request[c])

IInv == TypeOK /\ OneInside /\ Stages /\ MembersDescribeTimer

LEMMA ParameterFields ==
  ASSUME NEW p \in Parameters
  PROVE  /\ p.ticks \in 0..MaxTicks /\ p.type \in Type /\ p.activation \in ActivationType
         /\ InitialTicks(p) \in 0..MaxTicks /\ ReloadTicks(p) \in 0..MaxTicks
         /\ InitialTicks(p) <= (IF p.ticks > 0 THEN p.ticks ELSE 1)
<1>1. p.ticks \in 0..MaxTicks /\ p.type \in Type /\ p.activation \in ActivationType
  BY DEF Parameters
<1> QED BY <1>1, TimerAssumption DEF InitialTicks, ReloadTicks

LEMMA InitIInv == Init => IInv
<1> SUFFICES ASSUME Init PROVE IInv
  OBVIOUS
<1>1. TypeOK
  BY ParameterFields, TimerAssumption DEF Init, TypeOK
<1>2. OneInside /\ Stages
  BY DEF Init, OneInside, Stages
<1>3. MembersDescribeTimer
  BY ParameterFields DEF Init, MembersDescribeTimer
<1> QED BY <1>1, <1>2, <1>3 DEF IInv

LEMMA ResetIInv ==
  ASSUME Serial = TRUE, IInv, NEW c \in Callers, NEW p \in Parameters, Reset(c, p)
  PROVE  IInv'
<1> USE DEF IInv, Reset, Free, TypeOK
<1>1. TypeOK'
  OBVIOUS
<1>2. OneInside'
  BY DEF OneInside
<1>3. Agree /\ Agree'
  BY DEF MembersDescribeTimer, Agree
<1>4. Stages'
  BY <1>3 DEF Stages
<1>5. MembersDescribeTimer'
  BY DEF MembersDescribeTimer
<1> QED BY <1>1, <1>2, <1>4, <1>5

LEMMA ResetChangeIInv ==
  ASSUME IInv, NEW c \in Callers, ResetChange(c)
  PROVE  IInv'
<1> USE DEF IInv, TypeOK
<1>1. request[c] \in Parameters /\ pc[c] = "change" /\ ~active /\ Agree
  BY DEF ResetChange, Stages
<1>2. \A d \in Callers \ {c} : pc[d] = "idle" /\ pc'[d] = "idle"
  BY DEF ResetChange, OneInside
<1>3. CASE InitialTicks(request[c]) = 0
  <2> USE <1>1, <1>2, <1>3 DEF ResetChange
  <2>1. UNCHANGED <<exists, m, active, remaining, reload, request>> /\ pc' = [pc EXCEPT ![c] = "idle"]
    BY ParameterFields
  <2>2. TypeOK' /\ OneInside' /\ Stages'
    BY <2>1 DEF OneInside, Stages
  <2>3. MembersDescribeTimer'
    BY <2>1 DEF MembersDescribeTimer, Agree
  <2> QED BY <2>2, <2>3
<1>4. CASE InitialTicks(request[c]) > 0
  <2>1. /\ pc' = [pc EXCEPT ![c] = "assign"]
        /\ remaining' = InitialTicks(request[c])
        /\ reload' = ReloadTicks(request[c])
        /\ UNCHANGED <<exists, m, active, request>>
    BY <1>1, <1>4 DEF ResetChange
  <2>2. remaining' \in 0..MaxTicks /\ reload' \in 0..MaxTicks /\ remaining' > 0
    BY <1>1, <1>4, <2>1, ParameterFields
  <2>3. TypeOK'
    BY <2>1, <2>2
  <2>4. OneInside' /\ Stages'
    BY <1>1, <1>2, <2>1, <2>2 DEF OneInside, Stages
  <2>5. MembersDescribeTimer'
    BY <2>1 DEF MembersDescribeTimer
  <2> QED BY <2>3, <2>4, <2>5
<1> QED BY <1>3, <1>4 DEF ResetChange

LEMMA ResetAssignIInv ==
  ASSUME IInv, NEW c \in Callers, ResetAssign(c)
  PROVE  IInv'
<1> USE DEF IInv, TypeOK, ResetAssign, native
<1>1. request[c] \in Parameters /\ m' = request[c]
  OBVIOUS
<1>2. \A d \in Callers \ {c} : pc[d] = "idle" /\ pc'[d] = "idle"
  BY DEF OneInside
<1>3. Agree'
  <2>1. remaining = InitialTicks(request[c]) /\ reload = ReloadTicks(request[c])
    BY DEF Stages
  <2> QED BY <1>1, <2>1, ParameterFields DEF Agree, ReloadTicks
<1>4. TypeOK' /\ OneInside'
  BY <1>1, <1>2 DEF OneInside
<1>5. Stages'
  BY <1>2, <1>3 DEF Stages
<1>6. MembersDescribeTimer'
  BY <1>3 DEF MembersDescribeTimer, Agree
<1> QED BY <1>4, <1>5, <1>6

LEMMA ResetActivateIInv ==
  ASSUME IInv, NEW c \in Callers, ResetActivate(c)
  PROVE  IInv'
<1> USE DEF IInv, TypeOK, ResetActivate, Activated
<1>1. \A d \in Callers \ {c} : pc[d] = "idle" /\ pc'[d] = "idle"
  BY DEF OneInside
<1>2. Agree'
  BY DEF Stages, Agree, ReloadTicks
<1>3. TypeOK' /\ OneInside'
  BY <1>1 DEF OneInside
<1>4. Stages'
  BY <1>1 DEF Stages
<1>5. MembersDescribeTimer'
  BY <1>2 DEF MembersDescribeTimer, Agree
<1> QED BY <1>3, <1>4, <1>5

\* The arithmetic of a tick.
LEMMA TickCounts ==
  ASSUME NEW r \in 0..MaxTicks, r > 1, NEW limit \in 0..MaxTicks, r <= limit \/ r <= 1
  PROVE  r - 1 \in 0..MaxTicks /\ r - 1 <= limit
  BY TimerAssumption

LEMMA TickIInv == ASSUME IInv, Tick PROVE IInv'
<1>1. \A c \in Callers : pc[c] = "idle" /\ pc'[c] = "idle"
  BY DEF IInv, Stages, TypeOK, Tick
<1>2. Agree /\ m.ticks \in 0..MaxTicks
  BY <1>1, ParameterFields DEF IInv, TypeOK, MembersDescribeTimer, Agree
<1>3. UNCHANGED <<exists, m, reload, pc, request>>
  BY DEF Tick
<1>4. active' \in BOOLEAN
  <2>1. active \in BOOLEAN
    BY DEF IInv, TypeOK
  <2>2. CASE active' = active
    BY <2>1, <2>2
  <2>3. CASE active' = (reload > 0)
    BY <2>3
  <2> QED BY <2>2, <2>3 DEF Tick
<1>5. remaining' \in 0..MaxTicks /\ Agree'
  <2>1. CASE remaining > 1 /\ remaining' = remaining - 1
    <3>1. remaining \in 0..MaxTicks
      BY DEF IInv, TypeOK
    <3>2. remaining <= m.ticks \/ remaining <= 1
      BY <1>2 DEF Agree
    <3>3. remaining' \in 0..MaxTicks /\ remaining' <= m.ticks
      BY <1>2, <2>1, <3>1, <3>2, TickCounts
    <3>4. remaining' <= (IF m.ticks > 0 THEN m.ticks ELSE 1)
      BY <1>2, <3>3
    <3> QED BY <1>2, <1>3, <3>3, <3>4 DEF Agree, ReloadTicks
  <2>2. CASE remaining' = reload
    <3>1. reload \in 0..MaxTicks
      BY DEF IInv, TypeOK
    <3> QED BY <1>2, <1>3, <2>2, <3>1 DEF Agree, ReloadTicks
  <2> QED BY <2>1, <2>2 DEF Tick
<1>6. TypeOK'
  BY <1>3, <1>4, <1>5 DEF IInv, TypeOK
<1>7. OneInside' /\ Stages'
  BY <1>1 DEF OneInside, Stages
<1>8. MembersDescribeTimer'
  BY <1>5 DEF MembersDescribeTimer, Agree
<1> QED BY <1>6, <1>7, <1>8 DEF IInv

LEMMA NextIInv == ASSUME Serial = TRUE, IInv, [Next]_vars PROVE IInv'
<1>0. m \in Parameters
  BY DEF IInv, TypeOK
<1>1. ASSUME NEW c \in Callers, NEW p \in Parameters, Reset(c, p) PROVE IInv'
  BY <1>1, ResetIInv
<1>2. ASSUME NEW c \in Callers, ResetAgain(c) PROVE IInv'
  BY <1>0, <1>2, ResetIInv DEF ResetAgain
<1>3. ASSUME NEW c \in Callers, NEW ticks \in 0..MaxTicks,
             \/ ResetTimeout(c, ticks)
             \/ \E type \in Type : ResetTimeoutAndType(c, ticks, type)
             \/ \E a \in ActivationType : ResetTimeoutAndActivation(c, ticks, a)
      PROVE  IInv'
  <2>1. [m EXCEPT !.ticks = ticks] \in Parameters
    BY <1>0 DEF Parameters
  <2>2. \A type \in Type : [m EXCEPT !.ticks = ticks, !.type = type] \in Parameters
    BY <1>0 DEF Parameters
  <2>3. \A a \in ActivationType : [m EXCEPT !.ticks = ticks, !.activation = a] \in Parameters
    BY <1>0 DEF Parameters
  <2> QED BY <1>3, <2>1, <2>2, <2>3, ResetIInv
          DEF ResetTimeout, ResetTimeoutAndType, ResetTimeoutAndActivation
<1>4. ASSUME NEW c \in Callers, ResetStep(c) PROVE IInv'
  BY <1>4, ResetChangeIInv, ResetAssignIInv, ResetActivateIInv DEF ResetStep
<1>5. ASSUME NEW c \in Callers, Activate(c) \/ Deactivate(c) PROVE IInv'
  <2> USE <1>5 DEF Activate, Deactivate, Activated, Free, IInv
  <2>1. \A d \in Callers : pc[d] = "idle" /\ pc'[d] = "idle"
    OBVIOUS
  <2>2. TypeOK' /\ OneInside' /\ Stages'
    BY <2>1 DEF TypeOK, OneInside, Stages
  <2>3. MembersDescribeTimer'
    BY <2>1 DEF MembersDescribeTimer, ReloadTicks
  <2> QED BY <2>2, <2>3
<1>6. CASE Tick
  BY <1>6, TickIInv
<1>7. CASE Destroy
  <2>1. TypeOK' /\ OneInside' /\ Stages'
    BY <1>7 DEF Destroy, IInv, TypeOK, OneInside, Stages
  <2>2. MembersDescribeTimer'
    BY <1>7 DEF Destroy, IInv, MembersDescribeTimer, ReloadTicks
  <2> QED BY <2>1, <2>2 DEF IInv
<1>8. CASE UNCHANGED vars
  BY <1>8 DEF vars, IInv, TypeOK, OneInside, Stages, MembersDescribeTimer, Agree, ReloadTicks
<1> QED BY <1>1, <1>2, <1>3, <1>4, <1>5, <1>6, <1>7, <1>8 DEF Next

-----------------------------------------------------------------------------
(* The members and the kernel timer keep their types, the timer its range.  *)
THEOREM TypeCorrect == ASSUME Serial = TRUE PROVE Spec => []TypeOK
<1>1. IInv => TypeOK BY DEF IInv
<1> QED BY <1>1, InitIInv, NextIInv, PTL DEF Spec

(* The members keep describing the kernel timer.                            *)
THEOREM MembersAgree == ASSUME Serial = TRUE PROVE Spec => []MembersDescribeTimer
<1>1. IInv => MembersDescribeTimer BY DEF IInv
<1> QED BY <1>1, InitIInv, NextIInv, PTL DEF Spec

(* A change the kernel accepted has been made.                              *)
THEOREM ChangeIsMade == ASSUME Serial = TRUE PROVE Spec => []ChangeTakesEffect
<1>1. IInv => ChangeTakesEffect BY DEF IInv, Stages, ChangeTakesEffect
<1> QED BY <1>1, InitIInv, NextIInv, PTL DEF Spec

(* The activation that ends reset() is never refused.                       *)
THEOREM ActivationAccepted == ASSUME Serial = TRUE PROVE Spec => []ResetCanActivate
<1>1. IInv => ResetCanActivate BY DEF IInv, Stages, ResetCanActivate
<1> QED BY <1>1, InitIInv, NextIInv, PTL DEF Spec

-----------------------------------------------------------------------------
(***************************************************************************)
(* Durations and deadlines (TickDeadline), for counters of any width and   *)
(* ticks of any number of units.  Two hypotheses name what the application *)
(* must do: a deadline of TickTimer's own clock is used before a whole     *)
(* tick has passed since it (the run deadline_passed shows what happens    *)
(* else), and no deadline is so far ahead that its ticks are waitForever.  *)
(***************************************************************************)
InTimeCalls == MaxLate["TickTimer"] < Unit

NotTooFar == MaxAhead <= (Modulus - 2) * Unit

(* Arithmetic of a counter that wraps.                                      *)
LEMMA InRange == ASSUME NEW x \in Int PROVE x % Modulus \in 0..Modulus - 1
  BY DeadlineAssumption

LEMMA NoWrap == ASSUME NEW x \in 0..Modulus - 1 PROVE x % Modulus = x
  BY DeadlineAssumption

LEMMA WrapsOnce ==
  ASSUME NEW x \in Modulus..2 * Modulus - 1 PROVE x % Modulus = x - Modulus
  BY DeadlineAssumption

LEMMA WrapsBack ==
  ASSUME NEW x \in -Modulus..-1 PROVE x % Modulus = x + Modulus
  BY DeadlineAssumption

LEMMA Quotient ==
  ASSUME NEW d \in Nat, NEW per \in Nat \ {0}
  PROVE  /\ d \div per \in Nat
         /\ (d \div per) * per <= d
         /\ d < (d \div per) * per + per
         /\ d % per = d - (d \div per) * per
  OBVIOUS

LEMMA Monotone ==
  ASSUME NEW a \in Int, NEW b \in Int, NEW per \in Nat \ {0}, a <= b
  PROVE  a * per <= b * per
  OBVIOUS

LEMMA Distributes ==
  ASSUME NEW a \in Int, NEW per \in Int
  PROVE  (a - 1) * per = a * per - per /\ (a + 1) * per = a * per + per
         /\ a * per \in Int
  OBVIOUS

LEMMA QuotientIs ==
  ASSUME NEW d \in Nat, NEW per \in Nat \ {0}, NEW n \in Nat,
         n * per <= d, d < n * per + per
  PROVE  d \div per = n
<1> DEFINE q == d \div per
           P == n * per
           R == q * per
<1>1. q \in Nat /\ R <= d /\ d < R + per
  BY Quotient
<1>2. /\ (q + 1) * per = R + per /\ (n + 1) * per = P + per
      /\ P \in Int /\ R \in Int
  BY <1>1, Distributes
<1>3. ~(q + 1 <= n)
  <2> SUFFICES ASSUME q + 1 <= n PROVE FALSE
    OBVIOUS
  <2>1. (q + 1) * per <= P
    BY <1>1, Monotone
  <2> HIDE DEF P, R, q
  <2> QED BY <1>1, <1>2, <2>1
<1>4. ~(n + 1 <= q)
  <2> SUFFICES ASSUME n + 1 <= q PROVE FALSE
    OBVIOUS
  <2>1. (n + 1) * per <= R
    BY <1>1, Monotone
  <2> HIDE DEF P, R, q
  <2> QED BY <1>1, <1>2, <2>1
<1> QED BY <1>1, <1>3, <1>4

(* ticks() by the whole ticks n in d, as long as they fit the counter.      *)
LEMMA TicksIs ==
  ASSUME NEW d \in Nat, NEW per \in Nat \ {0}, NEW n \in 0..Modulus - 1,
         NEW P, P = n * per, P <= d, d < P + per
  PROVE  Ticks(d, per) = IF P < d THEN (n + 1) % Modulus ELSE n
<1>1. d \div per = n
  BY QuotientIs, DeadlineAssumption
<1>2. Truncated(d, per) = n
  BY <1>1, NoWrap DEF Truncated
<1> QED BY <1>2 DEF Ticks

LEMMA TicksWhole ==
  ASSUME NEW per \in Nat \ {0}, NEW n \in 0..Modulus - 1
  PROVE  n * per \in Nat /\ Ticks(n * per, per) = n
<1> DEFINE P == n * per
<1>1. P = n * per /\ P \in Nat
  BY DeadlineAssumption
<1> HIDE DEF P
<1>2. P <= P /\ P < P + per /\ ~(P < P)
  BY <1>1
<1>3. Ticks(P, per) = n
  BY <1>1, <1>2, TicksIs
<1> QED BY <1>1, <1>3

\* n ticks last as long as d, and n - 1 do not.
Ceiling(n, d, per) == n * per >= d /\ n * per < d + per

(* ticks() rounds up and nothing more: of a duration shorter than a whole   *)
(* turn of the counter it makes the least number of ticks that lasts as     *)
(* long (tickTimer.hpp:94-107).                                             *)
THEOREM TicksRoundUp ==
  ASSUME NEW per \in Nat \ {0}, NEW d \in Nat, d <= (Modulus - 1) * per
  PROVE  Ticks(d, per) \in 0..Modulus - 1 /\ Ceiling(Ticks(d, per), d, per)
<1> DEFINE q == d \div per
           P == q * per
           top == (Modulus - 1) * per
<1>1. /\ q \in Nat /\ P \in Int /\ top \in Int
      /\ P <= d /\ d < P + per /\ d <= top
      /\ (q + 1) * per = P + per
  BY Quotient, Distributes, DeadlineAssumption
<1>2. q <= Modulus - 1
  <2> SUFFICES ASSUME Modulus <= q PROVE FALSE
    BY <1>1, DeadlineAssumption
  <2>1. Modulus * per <= P
    BY Monotone, <1>1, DeadlineAssumption
  <2>2. top = Modulus * per - per /\ Modulus * per \in Int
    BY Distributes, DeadlineAssumption
  <2> HIDE DEF P, top
  <2> QED BY <2>1, <2>2, <1>1
<1>3. P < d => q + 1 <= Modulus - 1
  <2> SUFFICES ASSUME P < d, q = Modulus - 1 PROVE FALSE
    BY <1>1, <1>2, DeadlineAssumption
  <2>1. P = top
    OBVIOUS
  <2> HIDE DEF P, top
  <2> QED BY <2>1, <1>1
<1>4. Ticks(d, per) = IF P < d THEN (q + 1) % Modulus ELSE q
  <2>1. P = q * per /\ q \in 0..Modulus - 1 /\ P <= d /\ d < P + per
    BY <1>1, <1>2, DeadlineAssumption
  <2> HIDE DEF P, q
  <2> QED BY <2>1, TicksIs
<1> HIDE DEF q
<1>5. Ticks(d, per) = IF P < d THEN q + 1 ELSE q
  <2>1. q \in Nat
    BY <1>1
  <2> DEFINE r == q + 1
  <2>2. ASSUME r <= Modulus - 1 PROVE r % Modulus = r
    <3>1. r \in 0..Modulus - 1
      BY <2>1, <2>2
    <3> HIDE DEF r
    <3> QED BY <3>1, NoWrap
  <2> QED BY <1>3, <1>4, <2>2
<1>6. Ticks(d, per) * per = IF P < d THEN P + per ELSE P
  BY <1>5, <1>1
<1> HIDE DEF P, top
<1>7. Ticks(d, per) \in 0..Modulus - 1
  BY <1>1, <1>2, <1>3, <1>5, DeadlineAssumption
<1>8. Ceiling(Ticks(d, per), d, per)
  BY <1>1, <1>6 DEF Ceiling
<1> QED BY <1>7, <1>8

(* The two durations at which it no longer does: a finite one of            *)
(* Modulus - 1 ticks is taken for waitForever (tickTimer.hpp:44), and one   *)
(* of Modulus ticks, cut off by the cast of std::chrono::ceil, for a single *)
(* tick.                                                                    *)
THEOREM TicksAtTheLimits ==
  ASSUME NEW per \in Nat \ {0}
  PROVE  /\ Ticks((Modulus - 1) * per, per) = waitForever
         /\ Ticks(Modulus * per, per) = 1
<1>1. Ticks((Modulus - 1) * per, per) = Modulus - 1
  BY TicksWhole, DeadlineAssumption
<1>2. PICK over : over = Modulus * per
  OBVIOUS
<1>3. over \in Nat /\ over > 0
  BY <1>2, DeadlineAssumption
<1>4. over \div per = Modulus
  <2>1. over <= over /\ over < over + per
    BY <1>3
  <2> QED BY <2>1, <1>2, <1>3, QuotientIs, DeadlineAssumption
<1>5. Modulus % Modulus = 0 /\ 1 % Modulus = 1
  BY WrapsOnce, NoWrap, DeadlineAssumption
<1>6. Truncated(over, per) = 0
  BY <1>4, <1>5 DEF Truncated
<1>7. Ticks(over, per) = 1
  BY <1>3, <1>5, <1>6 DEF Ticks
<1> QED BY <1>1, <1>2, <1>7 DEF waitForever

-----------------------------------------------------------------------------
\* An armed deadline of TickTimer's own clock is a whole number of ticks ahead.
ArmedInv ==
    call = "armed" /\ clock = "TickTimer" =>
        \E k \in 0..Modulus - 2 :
            /\ ahead + sub = k * Unit
            /\ deadline = (tick + k) % Modulus

\* What is left of the sleep and what is left of the way differ by less than
\* a tick, and by nothing under TickTimer's own clock.
AsleepInv ==
    call = "asleep" =>
        /\ left > 0 /\ left # waitForever
        /\ -Unit < (ahead + sub) - left * Unit
        /\ (ahead + sub) - left * Unit < Unit
        /\ clock = "TickTimer" => ahead + sub = left * Unit

DeadlineInv == DeadlineTypeOK /\ ArmedInv /\ AsleepInv

LEMMA InitDeadlineInv == DeadlineInit => DeadlineInv
<1> SUFFICES ASSUME DeadlineInit PROVE DeadlineInv
  OBVIOUS
<1> QED
  BY DeadlineAssumption
  DEF DeadlineInit, DeadlineInv, DeadlineTypeOK, ArmedInv, AsleepInv, Clocks

LEMMA ArmDeadlineInv ==
  ASSUME NotTooFar, DeadlineInv, NEW k \in Clocks, NEW d \in 0..MaxAhead, Arm(k, d)
  PROVE  DeadlineInv'
<1> DEFINE n == d \div Unit
           P == n * Unit
           top == (Modulus - 2) * Unit
<1>1. n \in Nat /\ P <= d /\ d < P + Unit /\ d % Unit = d - P /\ P \in Int
  <2>1. d \in Nat /\ Unit \in Nat \ {0}
    BY DeadlineAssumption
  <2>2. n \in Nat /\ P <= d /\ d < P + Unit /\ d % Unit = d - P
    BY <2>1, Quotient
  <2>3. P \in Int
    BY <2>1, <2>2
  <2> QED BY <2>2, <2>3
<1>2. n <= Modulus - 2
  <2> SUFFICES ASSUME Modulus - 1 <= n PROVE FALSE
    BY <1>1, DeadlineAssumption
  <2>1. (Modulus - 1) * Unit <= P
    BY <1>1, Monotone, DeadlineAssumption
  <2>2. top = (Modulus - 1) * Unit - Unit /\ (Modulus - 1) * Unit \in Int
    BY Distributes, DeadlineAssumption
  <2>3. d <= top
    BY DeadlineAssumption DEF NotTooFar
  <2> HIDE DEF P, top
  <2> QED BY <1>1, <2>1, <2>2, <2>3, DeadlineAssumption
<1>3. /\ deadline' = (tick + n) % Modulus /\ call' = "armed" /\ clock' = k
      /\ ahead' = (IF k = "TickTimer" THEN d - sub ELSE d)
      /\ k = "TickTimer" => d % Unit = 0
      /\ UNCHANGED <<tick, sub, left>>
  BY DEF Arm
<1> HIDE DEF n
<1>4. DeadlineTypeOK'
  <2>1. tick + n \in Int
    BY <1>1, DeadlineAssumption DEF DeadlineInv, DeadlineTypeOK
  <2>2. (tick + n) % Modulus \in 0..Modulus - 1
    BY <2>1, InRange
  <2> HIDE DEF P, top
  <2> QED BY <1>3, <2>2, DeadlineAssumption DEF DeadlineInv, DeadlineTypeOK
<1>5. ArmedInv'
  <2> SUFFICES ASSUME k = "TickTimer"
               PROVE  /\ n \in 0..Modulus - 2
                      /\ ahead' + sub' = P
                      /\ deadline' = (tick' + n) % Modulus
    BY <1>3 DEF ArmedInv
  <2>1. ahead' + sub' = d
    BY <1>3, DeadlineAssumption DEF DeadlineInv, DeadlineTypeOK
  <2> HIDE DEF P, top
  <2> QED BY <2>1, <1>1, <1>2, <1>3, DeadlineAssumption
<1>6. AsleepInv'
  BY <1>3 DEF AsleepInv
<1> QED BY <1>4, <1>5, <1>6 DEF DeadlineInv

(* The ticks a call sleeps for, by each clock.                              *)
LEMMA OwnClock ==
  ASSUME NEW k \in 0..Modulus - 2, DeadlineTypeOK, clock = "TickTimer",
         deadline = (tick + k) % Modulus
  PROVE  TicksUntil = k
<1>1. /\ tick \in 0..Modulus - 1 /\ Modulus \in Nat \ {0}
      /\ tick + k \in Int /\ deadline - tick \in Int /\ deadline \in Int
  BY DeadlineAssumption DEF DeadlineTypeOK
<1> DEFINE s == tick + k
           e == deadline - tick
<1>2. deadline = IF s < Modulus THEN s ELSE s - Modulus
  <2>1. s \in 0..Modulus - 1 \/ s \in Modulus..2 * Modulus - 1
    BY <1>1
  <2>2. s \in Int /\ deadline = s % Modulus
    BY <1>1
  <2> HIDE DEF s
  <2>3. CASE s \in 0..Modulus - 1
    BY <2>2, <2>3, <1>1, NoWrap
  <2>4. CASE s \in Modulus..2 * Modulus - 1
    BY <2>2, <2>4, <1>1, WrapsOnce
  <2> QED BY <2>1, <2>3, <2>4
<1>3. e \in Int /\ (e = k \/ e = k - Modulus)
  BY <1>1, <1>2
<1> HIDE DEF e
<1>4. e % Modulus = k
  <2>1. CASE e = k
    BY <2>1, <1>1, NoWrap
  <2>2. CASE e = k - Modulus
    <3>1. e \in -Modulus..-1 /\ e + Modulus = k
      BY <2>2, <1>1
    <3> QED BY <3>1, WrapsBack
  <2> QED BY <1>3, <2>1, <2>2
<1>5. k \in 0..Modulus - 1 /\ k * 1 = k
  BY <1>1
<1>6. Ticks(k, 1) = k
  BY <1>5, TicksWhole
<1> QED BY <1>4, <1>6 DEF TicksUntil, e

LEMMA SignedClock ==
  ASSUME NotTooFar, DeadlineTypeOK, clock = "signed", ahead > 0
  PROVE  /\ TicksUntil \in 1..Modulus - 2
         /\ TicksUntil * Unit >= ahead /\ TicksUntil * Unit < ahead + Unit
<1> DEFINE n == Ticks(ahead, Unit)
           P == n * Unit
           top == (Modulus - 1) * Unit
           bound == (Modulus - 2) * Unit
<1>1. bound = top - Unit /\ top \in Int /\ bound \in Int
  BY Distributes, DeadlineAssumption
<1>2. ahead <= bound /\ ahead \in Nat
  BY DeadlineAssumption DEF NotTooFar, DeadlineTypeOK
<1>3. ahead <= top
  <2> HIDE DEF top, bound
  <2> QED BY <1>1, <1>2, DeadlineAssumption
<1>4. n \in 0..Modulus - 1 /\ P >= ahead /\ P < ahead + Unit
  BY <1>2, <1>3, TicksRoundUp, DeadlineAssumption DEF Ceiling
<1> HIDE DEF n
<1>5. n # 0
  <2> SUFFICES ASSUME n = 0 PROVE FALSE
    OBVIOUS
  <2>1. P = 0
    BY DeadlineAssumption
  <2> HIDE DEF P
  <2> QED BY <2>1, <1>2, <1>4
<1>6. n # Modulus - 1
  <2> SUFFICES ASSUME n = Modulus - 1 PROVE FALSE
    OBVIOUS
  <2>1. P = top
    OBVIOUS
  <2> HIDE DEF P, top, bound
  <2> QED BY <2>1, <1>1, <1>2, <1>4, DeadlineAssumption
<1>7. TicksUntil = n
  BY DEF TicksUntil, n
<1>8. n \in 1..Modulus - 2
  BY <1>4, <1>5, <1>6, DeadlineAssumption
<1> QED BY <1>4, <1>7, <1>8

LEMMA SleepTicks ==
  ASSUME NotTooFar, DeadlineInv, call = "armed",
         NEW n, n = TicksUntil, NEW P, P = n * Unit
  PROVE  /\ n \in 0..Modulus - 2 /\ P \in Int
         /\ n > 0 => -Unit < (ahead + sub) - P /\ (ahead + sub) - P < Unit
         /\ clock = "TickTimer" => ahead + sub = P
         /\ clock = "TickTimer" /\ n = 0 => ahead <= 0
<1>1. /\ ahead \in Int /\ sub \in 0..Unit - 1 /\ Unit \in Nat \ {0}
      /\ Modulus \in Nat /\ Modulus > 2 /\ DeadlineTypeOK
      /\ clock \in Clocks
  BY DeadlineAssumption DEF DeadlineInv, DeadlineTypeOK
<1>2. CASE clock = "TickTimer"
  <2>1. PICK k \in 0..Modulus - 2 :
           ahead + sub = k * Unit /\ deadline = (tick + k) % Modulus
    BY <1>2 DEF DeadlineInv, ArmedInv
  <2>2. n = k
    BY <1>1, <1>2, <2>1, OwnClock
  <2>3. ahead + sub = P /\ n \in 0..Modulus - 2 /\ P \in Int
    BY <1>1, <2>1, <2>2
  <2>4. n = 0 => P = 0
    BY <1>1
  <2> QED BY <1>1, <2>3, <2>4
<1>3. CASE clock = "signed" /\ ahead > 0
  <2>1. n \in 1..Modulus - 2 /\ P >= ahead /\ P < ahead + Unit
    BY <1>1, <1>3, SignedClock
  <2>2. P \in Int
    BY <1>1, <2>1
  <2> QED BY <1>1, <1>3, <2>1, <2>2
<1>4. CASE clock = "signed" /\ ahead <= 0
  <2>1. ahead < 0 => n = 0
    BY <1>4 DEF TicksUntil, Ticks
  <2>2. ahead = 0 => n = 0
    <3>1. 0 \in 0..Modulus - 1 /\ 0 * Unit = 0
      BY <1>1
    <3>2. Ticks(0, Unit) = 0
      BY <1>1, <3>1, TicksWhole
    <3> QED BY <1>4, <3>2 DEF TicksUntil
  <2>3. n = 0
    BY <1>1, <1>4, <2>1, <2>2
  <2>4. P = 0
    BY <1>1, <2>3
  <2> QED BY <1>1, <1>4, <2>3, <2>4
<1> QED BY <1>1, <1>2, <1>3, <1>4 DEF Clocks

LEMMA SleepUntilDeadlineInv ==
  ASSUME NotTooFar, DeadlineInv, SleepUntil PROVE DeadlineInv'
<1> DEFINE n == TicksUntil
           P == n * Unit
<1>1. /\ n \in 0..Modulus - 2 /\ P \in Int
      /\ n > 0 => -Unit < (ahead + sub) - P /\ (ahead + sub) - P < Unit
      /\ clock = "TickTimer" => ahead + sub = P
  BY SleepTicks DEF SleepUntil
<1>2. /\ left' = n /\ call' = (IF n = 0 THEN "idle" ELSE "asleep")
      /\ UNCHANGED <<tick, sub, clock, deadline, ahead>>
  BY DEF SleepUntil
<1>3. P = n * Unit
  OBVIOUS
<1> HIDE DEF n, P
<1>4. DeadlineTypeOK'
  BY <1>1, <1>2, DeadlineAssumption DEF DeadlineInv, DeadlineTypeOK
<1>5. ArmedInv'
  BY <1>2 DEF ArmedInv
<1>6. AsleepInv'
  <2> SUFFICES ASSUME n # 0
               PROVE  /\ n > 0 /\ n # waitForever
                      /\ -Unit < (ahead + sub) - P
                      /\ (ahead + sub) - P < Unit
                      /\ clock = "TickTimer" => ahead + sub = P
    BY <1>2, <1>3 DEF AsleepInv, waitForever
  <2> QED BY <1>1, DeadlineAssumption DEF waitForever
<1> QED BY <1>4, <1>5, <1>6 DEF DeadlineInv

(* A tick nearer and a tick less to sleep.                                  *)
LEMMA TickNearer ==
  ASSUME NEW w \in Int, NEW u \in Int, NEW p \in Int, NEW q \in Int,
         u = w - Unit, q = p - Unit, -Unit < w - p, w - p < Unit
  PROVE  -Unit < u - q /\ u - q < Unit
  BY DeadlineAssumption

(* The way to the deadline and the ticks of the sleep, as time goes on.     *)
LEMMA ElapseDeadlineInv ==
  ASSUME InTimeCalls, DeadlineInv, Elapse PROVE DeadlineInv'
<1>1. /\ tick \in 0..Modulus - 1 /\ sub \in 0..Unit - 1 /\ ahead \in Int
      /\ ahead <= MaxAhead /\ MaxAhead \in Nat
      /\ left \in 0..Modulus - 1 /\ deadline \in 0..Modulus - 1
      /\ call \in {"idle", "armed", "asleep"} /\ clock \in Clocks
      /\ Unit \in Nat \ {0} /\ Modulus \in Nat /\ Modulus > 2
  BY DeadlineAssumption DEF DeadlineInv, DeadlineTypeOK
<1>2. CASE sub < Unit - 1
  <2>1. /\ sub' = sub + 1 /\ UNCHANGED <<tick, call, left, clock, deadline>>
        /\ ahead' = IF call = "idle" THEN ahead ELSE ahead - 1
    BY <1>1, <1>2 DEF Elapse
  <2>2. call # "idle" => ahead' + sub' = ahead + sub
    BY <1>1, <2>1
  <2>3. DeadlineTypeOK'
    BY <1>1, <1>2, <2>1 DEF DeadlineTypeOK
  <2>4. ArmedInv'
    BY <2>1, <2>2 DEF DeadlineInv, ArmedInv
  <2>5. AsleepInv'
    <3> SUFFICES ASSUME call = "asleep"
                 PROVE  /\ left > 0 /\ left # waitForever
                        /\ -Unit < (ahead' + sub') - left * Unit
                        /\ (ahead' + sub') - left * Unit < Unit
                        /\ clock = "TickTimer" => ahead' + sub' = left * Unit
      BY <2>1 DEF AsleepInv, waitForever
    <3> QED BY <2>2 DEF DeadlineInv, AsleepInv
  <2> QED BY <2>3, <2>4, <2>5 DEF DeadlineInv
<1>3. CASE sub = Unit - 1
  <2>1. /\ sub' = 0 /\ tick' = (tick + 1) % Modulus
        /\ UNCHANGED <<clock, deadline>>
        /\ ahead' = (IF call = "idle" THEN ahead ELSE ahead - 1)
        /\ call = "armed" => ahead > -MaxLate[clock]
        /\ IF call = "asleep" /\ left # waitForever
           THEN left' = left - 1 /\ call' = (IF left = 1 THEN "idle" ELSE call)
           ELSE UNCHANGED <<left, call>>
    BY <1>1, <1>3 DEF Elapse
  <2>2. tick' \in 0..Modulus - 1
    <3>1. tick + 1 \in Int
      BY <1>1
    <3> QED BY <2>1, <3>1, InRange
  <2>3. call = "asleep" => left > 0
    BY DEF DeadlineInv, AsleepInv
  <2>4. DeadlineTypeOK'
    BY <1>1, <2>1, <2>2, <2>3 DEF DeadlineTypeOK
  <2>5. ArmedInv'
    <3> SUFFICES ASSUME call = "armed", clock = "TickTimer"
                 PROVE  \E k \in 0..Modulus - 2 :
                           /\ ahead' + sub' = k * Unit
                           /\ deadline = (tick' + k) % Modulus
      BY <1>1, <2>1 DEF ArmedInv
    <3>1. PICK k \in 0..Modulus - 2 :
             ahead + sub = k * Unit /\ deadline = (tick + k) % Modulus
      BY DEF DeadlineInv, ArmedInv
    <3> DEFINE P == k * Unit
    <3>2. P = k * Unit /\ P \in Int /\ (k - 1) * Unit = P - Unit
      BY <1>1, Distributes
    <3>3. ahead + Unit > 0
      <4>1. MaxLate["TickTimer"] \in Nat /\ MaxLate["TickTimer"] < Unit
        BY DeadlineAssumption DEF InTimeCalls, Clocks
      <4> QED BY <1>1, <2>1, <4>1
    <3>4. k # 0
      <4> SUFFICES ASSUME k = 0 PROVE FALSE
        OBVIOUS
      <4>1. P = 0
        BY <1>1
      <4> HIDE DEF P
      <4>2. ahead + sub = 0
        BY <3>1, <3>2, <4>1
      <4>3. ahead = -(Unit - 1) /\ ahead > -MaxLate["TickTimer"]
        BY <1>1, <1>3, <2>1, <4>2
      <4>4. MaxLate["TickTimer"] \in Nat /\ MaxLate["TickTimer"] < Unit
        BY DeadlineAssumption DEF InTimeCalls, Clocks
      <4> QED BY <1>1, <4>3, <4>4
    <3>5. ahead' + sub' = (k - 1) * Unit
      <4> HIDE DEF P
      <4> QED BY <1>1, <1>3, <2>1, <3>1, <3>2
    <3>6. deadline = (tick' + (k - 1)) % Modulus
      <4>1. CASE tick + 1 < Modulus
        <5>1. tick + 1 \in 0..Modulus - 1
          BY <1>1, <4>1
        <5>2. tick' = tick + 1
          BY <2>1, <5>1, NoWrap
        <5> QED BY <1>1, <3>1, <5>2
      <4>2. CASE tick + 1 = Modulus
        <5>1. tick' = 0
          <6>1. Modulus \in Modulus..2 * Modulus - 1
            BY <1>1
          <6> QED BY <1>1, <2>1, <4>2, <6>1, WrapsOnce
        <5>2. tick + k \in Modulus..2 * Modulus - 1 /\ k - 1 \in 0..Modulus - 1
          BY <1>1, <3>4, <4>2
        <5>3. deadline = (tick + k) - Modulus
          BY <3>1, <5>2, WrapsOnce
        <5>4. (k - 1) % Modulus = k - 1
          BY <5>2, NoWrap
        <5> QED BY <1>1, <4>2, <5>1, <5>3, <5>4
      <4> QED BY <1>1, <4>1, <4>2
    <3>7. k - 1 \in 0..Modulus - 2
      BY <1>1, <3>4
    <3> QED BY <3>5, <3>6, <3>7
  <2>6. AsleepInv'
    <3> SUFFICES ASSUME call = "asleep", left # 1
                 PROVE  /\ left' > 0 /\ left' # waitForever
                        /\ -Unit < (ahead' + sub') - left' * Unit
                        /\ (ahead' + sub') - left' * Unit < Unit
                        /\ clock = "TickTimer" => ahead' + sub' = left' * Unit
      BY <1>1, <2>1 DEF DeadlineInv, AsleepInv, waitForever
    <3> DEFINE P == left * Unit
               Q == left' * Unit
    <3>1. /\ left > 0 /\ left # waitForever /\ P \in Int
          /\ -Unit < (ahead + sub) - P /\ (ahead + sub) - P < Unit
          /\ clock = "TickTimer" => ahead + sub = P
      BY <1>1 DEF DeadlineInv, AsleepInv
    <3>2. left' = left - 1
      BY <2>1, <3>1
    <3>3. Q = P - Unit
      BY <1>1, <3>2, Distributes
    <3> HIDE DEF P, Q
    <3>4. ahead' + sub' = (ahead + sub) - Unit
      BY <1>1, <1>3, <2>1
    <3>5. ahead' \in Int /\ sub' \in Int /\ Q \in Int
      BY <1>1, <2>1, <3>1, <3>3
    <3>6. left' > 0 /\ left' # waitForever
      BY <1>1, <3>1, <3>2 DEF waitForever
    <3>7. -Unit < (ahead' + sub') - Q /\ (ahead' + sub') - Q < Unit
      <4>1. ahead + sub \in Int /\ ahead' + sub' \in Int
        BY <1>1, <3>5
      <4> QED BY <4>1, <3>1, <3>3, <3>4, <3>5, TickNearer
    <3>8. clock = "TickTimer" => ahead' + sub' = Q
      BY <1>1, <3>1, <3>3, <3>4
    <3> QED BY <3>6, <3>7, <3>8 DEF Q
  <2> QED BY <2>4, <2>5, <2>6 DEF DeadlineInv
<1> QED BY <1>1, <1>2, <1>3

LEMMA NextDeadlineInv ==
  ASSUME InTimeCalls, NotTooFar, DeadlineInv, [DeadlineNext]_deadlineVars
  PROVE  DeadlineInv'
<1>1. CASE \E k \in Clocks, d \in 0..MaxAhead : Arm(k, d)
  BY <1>1, ArmDeadlineInv
<1>2. CASE SleepUntil
  BY <1>2, SleepUntilDeadlineInv
<1>3. CASE Elapse
  BY <1>3, ElapseDeadlineInv
<1>4. CASE UNCHANGED deadlineVars
  BY <1>4
  DEF deadlineVars, DeadlineInv, DeadlineTypeOK, ArmedInv, AsleepInv, waitForever
<1> QED BY <1>1, <1>2, <1>3, <1>4 DEF DeadlineNext

(* The end of a sleep: the last unit of the last tick.                      *)
LEMMA Waking ==
  ASSUME DeadlineInv, Elapse, call # "idle", call' = "idle"
  PROVE  /\ call = "asleep"
         /\ ahead' < Unit /\ ahead' > -Unit
         /\ clock = "TickTimer" => ahead' = 0
<1>1. /\ call = "asleep" /\ left = 1 /\ sub = Unit - 1 /\ ahead' = ahead - 1
  BY DEF Elapse, DeadlineInv, DeadlineTypeOK
<1>2. left * Unit = Unit /\ Unit \in Nat \ {0} /\ ahead \in Int
  BY <1>1, DeadlineAssumption DEF DeadlineInv, DeadlineTypeOK
<1>3. /\ -Unit < (ahead + sub) - Unit /\ (ahead + sub) - Unit < Unit
      /\ clock = "TickTimer" => ahead + sub = Unit
  BY <1>1, <1>2 DEF DeadlineInv, AsleepInv
<1> QED BY <1>1, <1>2, <1>3

LEMMA SleepsOn ==
  ASSUME DeadlineInv, call = "asleep" PROVE ahead > -Unit
<1> DEFINE P == left * Unit
<1>1. /\ sub \in 0..Unit - 1 /\ ahead \in Int /\ Unit \in Nat \ {0}
      /\ left \in Nat /\ left > 0 /\ -Unit < (ahead + sub) - P
  BY DeadlineAssumption DEF DeadlineInv, DeadlineTypeOK, AsleepInv
<1>2. P \in Int /\ 1 * Unit <= P
  BY <1>1, Monotone
<1> HIDE DEF P
<1> QED BY <1>1, <1>2

(* The clock and the sleep keep their types: no time_point and no count of  *)
(* ticks leaves the width of its representation.                            *)
THEOREM DeadlineTypeCorrect ==
  ASSUME InTimeCalls, NotTooFar PROVE DeadlineSpec => []DeadlineTypeOK
<1>1. DeadlineInv => DeadlineTypeOK
  BY DEF DeadlineInv
<1> QED BY <1>1, InitDeadlineInv, NextDeadlineInv, PTL DEF DeadlineSpec

(* A sleep never goes on for a tick after its deadline (sleepUntil(), and   *)
(* every ...Until() call that goes through ticks()).                        *)
THEOREM SleepNeverTooLong ==
  ASSUME InTimeCalls, NotTooFar PROVE DeadlineSpec => []NeverOversleeps
<1>1. DeadlineInv => NeverOversleeps
  BY SleepsOn DEF NeverOversleeps
<1> QED BY <1>1, InitDeadlineInv, NextDeadlineInv, PTL DEF DeadlineSpec

(* A sleep ends less than a tick before or after its deadline.              *)
THEOREM WakesInTime ==
  ASSUME InTimeCalls, NotTooFar PROVE DeadlineSpec => WakesWithinATick
<1>1. DeadlineInv /\ [DeadlineNext]_deadlineVars
      => [call = "asleep" /\ call' = "idle" => ahead' < Unit /\ ahead' > -Unit]_deadlineVars
  <2> SUFFICES ASSUME DeadlineInv, DeadlineNext, call = "asleep", call' = "idle"
               PROVE  ahead' < Unit /\ ahead' > -Unit
    BY DEF deadlineVars
  <2>1. Elapse
    BY DEF DeadlineNext, Arm, SleepUntil
  <2> QED BY <2>1, Waking
<1> QED
  BY <1>1, InitDeadlineInv, NextDeadlineInv, PTL DEF DeadlineSpec, WakesWithinATick

(* A call with a deadline of TickTimer's own clock never returns before it. *)
THEOREM NeverReturnsEarly ==
  ASSUME InTimeCalls, NotTooFar PROVE DeadlineSpec => NeverEarly
<1>1. DeadlineInv /\ [DeadlineNext]_deadlineVars
      => [clock = "TickTimer" /\ call # "idle" /\ call' = "idle" => ahead' <= 0]_deadlineVars
  <2> SUFFICES ASSUME DeadlineInv, DeadlineNext,
                      clock = "TickTimer", call # "idle", call' = "idle"
               PROVE  ahead' <= 0
    BY DEF deadlineVars
  <2>1. CASE Elapse
    BY <2>1, Waking
  <2>2. CASE SleepUntil
    <3>1. call = "armed" /\ TicksUntil = 0 /\ ahead' = ahead
      BY <2>2 DEF SleepUntil
    <3> QED BY <3>1, SleepTicks
  <2> QED BY <2>1, <2>2 DEF DeadlineNext, Arm
<1> QED BY <1>1, InitDeadlineInv, NextDeadlineInv, PTL DEF DeadlineSpec, NeverEarly

(* Why the first hypothesis is needed: k ticks after a deadline of          *)
(* TickTimer's own clock the difference wraps, and the call sleeps for what *)
(* is left of a whole turn of the counter (tickTimer.hpp:101, where an      *)
(* unsigned count is never negative).                                       *)
THEOREM PassedDeadlineWraps ==
  ASSUME NEW k \in 1..Modulus - 1, DeadlineTypeOK, clock = "TickTimer",
         (tick - deadline) % Modulus = k
  PROVE  TicksUntil = Modulus - k
<1> DEFINE e == deadline - tick
           f == tick - deadline
<1>1. /\ e \in Int /\ f = -e /\ e < Modulus /\ -e < Modulus
      /\ Modulus \in Nat /\ Modulus > 2 /\ f % Modulus = k
  BY DeadlineAssumption DEF DeadlineTypeOK
<1> HIDE DEF e, f
<1>2. f = k \/ f = k - Modulus
  <2>1. CASE f >= 0
    <3>1. f \in 0..Modulus - 1
      BY <1>1, <2>1
    <3> QED BY <1>1, <3>1, NoWrap
  <2>2. CASE f < 0
    <3>1. f \in -Modulus..-1
      BY <1>1, <2>2
    <3>2. f % Modulus = f + Modulus
      BY <3>1, WrapsBack
    <3> QED BY <1>1, <3>2
  <2> QED BY <1>1, <2>1, <2>2
<1>3. e % Modulus = Modulus - k
  <2>1. CASE f = k
    <3>1. e \in -Modulus..-1 /\ e + Modulus = Modulus - k
      BY <1>1, <2>1
    <3> QED BY <3>1, WrapsBack
  <2>2. CASE f = k - Modulus
    <3>1. e \in 0..Modulus - 1 /\ e = Modulus - k
      BY <1>1, <2>2
    <3> QED BY <3>1, NoWrap
  <2> QED BY <1>2, <2>1, <2>2
<1>4. Ticks(Modulus - k, 1) = Modulus - k
  <2> DEFINE n == Modulus - k
  <2>1. n \in 0..Modulus - 1 /\ n * 1 = n
    BY <1>1
  <2> HIDE DEF n
  <2>2. Ticks(n, 1) = n
    BY <2>1, TicksWhole
  <2> QED BY <2>2 DEF n
<1> QED BY <1>3, <1>4 DEF TicksUntil, e
=============================================================================
