----------------------- MODULE CriticalSectionProofs -----------------------
(***************************************************************************)
(* What holds of Kernel::CriticalSection for every set of threads, ISRs    *)
(* and priorities.  The typing lemma comes first; then what the winner of  *)
(* the flag may rely on, whoever else uses the class; then the whole       *)
(* promise for users of one priority; and last what join() makes of it.    *)
(***************************************************************************)
EXTENDS JoinSection, TLAPS

(***************************************************************************)
(* Types: depth stays within 0..MaxDepth because the step to "disable"     *)
(* does not count yet and "restore" and "clear" are only reached from      *)
(* inside, which is the strengthening TypeOK needs.                        *)
(***************************************************************************)
DepthOfStep ==
    \A c \in Contexts :
        /\ pc[c] = "disable" => depth[c] < MaxDepth
        /\ pc[c] \in {"restore", "clear"} => depth[c] > 0

Typed == TypeOK /\ DepthOfStep

LEMMA InitTyped == Init => Typed
<1> SUFFICES ASSUME Init PROVE Typed
  OBVIOUS
<1>1. TypeOK
  <2>1. depth \in [Contexts -> 0..MaxDepth]
    BY ContextsAssumption DEF Init
  <2>2. isrStack \in Seq(Isrs)
    BY DEF Init
  <2>3. /\ pc \in [Contexts -> {"run", "disable", "restore", "clear"}]
        /\ entered \in [Contexts -> {"none", "disabled", "skipped"}]
    BY DEF Init
  <2> QED BY <2>1, <2>2, <2>3 DEF Init, TypeOK, Posture
<1>2. DepthOfStep
  BY ContextsAssumption DEF Init, DepthOfStep
<1> QED BY <1>1, <1>2 DEF Typed

LEMMA RunningInContexts == ASSUME TypeOK PROVE Running \in Contexts
  BY DEF TypeOK, Running, Contexts

LEMMA StepTyped == ASSUME Typed, NEW c \in Contexts, Step(c) PROVE Typed'
<1> USE ContextsAssumption DEF Typed, TypeOK, DepthOfStep, Posture, core
<1>1. CASE LockTestAndSet(c)
  <2>1. depth' \in [Contexts -> 0..MaxDepth]
    BY <1>1 DEF LockTestAndSet
  <2>2. TypeOK'
    BY <1>1, <2>1 DEF LockTestAndSet
  <2>3. DepthOfStep'
    BY <1>1 DEF LockTestAndSet
  <2> QED BY <2>2, <2>3
<1>2. CASE LockDisable(c)
  BY <1>2 DEF LockDisable
<1>3. CASE UnlockTest(c)
  <2>1. depth' \in [Contexts -> 0..MaxDepth]
    <3>1. CASE locked
      BY <1>3, <3>1 DEF UnlockTest
    <3>2. CASE ~locked
      BY <1>3, <3>2 DEF UnlockTest
    <3> QED BY <3>1, <3>2
  <2>2. TypeOK'
    BY <1>3, <2>1 DEF UnlockTest
  <2>3. DepthOfStep'
    BY <1>3 DEF UnlockTest
  <2> QED BY <2>2, <2>3
<1>4. CASE UnlockRestore(c)
  BY <1>4 DEF UnlockRestore
<1>5. CASE UnlockClear(c)
  <2>1. depth' \in [Contexts -> 0..MaxDepth]
    BY <1>5 DEF UnlockClear
  <2>2. TypeOK'
    BY <1>5, <2>1 DEF UnlockClear
  <2>3. DepthOfStep'
    BY <1>5 DEF UnlockClear
  <2> QED BY <2>2, <2>3
<1> QED BY <1>1, <1>2, <1>3, <1>4, <1>5 DEF Step, Finish

LEMMA NextTyped == ASSUME Typed, [Next]_vars PROVE Typed'
<1> USE ContextsAssumption DEF Typed, TypeOK, DepthOfStep, Posture
<1>1. CASE \E i \in Isrs : Interrupt(i)
  BY <1>1 DEF Interrupt
<1>2. CASE InterruptReturn
  BY <1>2 DEF InterruptReturn
<1>3. CASE \E t \in Threads : Schedule(t)
  BY <1>3 DEF Schedule
<1>4. CASE \E c \in Users : c = Running /\ Step(c)
  BY <1>4, StepTyped
<1>5. CASE UNCHANGED vars
  BY <1>5 DEF vars
<1> QED BY <1>1, <1>2, <1>3, <1>4, <1>5 DEF Next

(* Every variable keeps its type: the calls of a context never drive the    *)
(* depth of its sections below zero or past the bound.                      *)
THEOREM TypeCorrect == Spec => []TypeOK
<1>1. Typed => TypeOK BY DEF Typed
<1> QED BY <1>1, InitTyped, NextTyped, PTL DEF Spec

-----------------------------------------------------------------------------
(***************************************************************************)
(* The winner.  Without nesting a Holding context has depth 1 and is not   *)
(* in unlock(), so the property needs only to know that a context about to *)
(* disable is outside and that one in unlock() is at depth 1.              *)
(***************************************************************************)
Flat ==
    \A c \in Contexts :
        /\ pc[c] = "disable" => depth[c] = 0
        /\ pc[c] \in {"restore", "clear"} => depth[c] = 1

WInv == Typed /\ Flat /\ WinnerProtected

LEMMA HoldingFlat ==
  ASSUME MaxDepth = 1, TypeOK, Flat, NEW c \in Contexts
  PROVE  Holding(c) <=> depth[c] = 1 /\ pc[c] = "run"
  BY DEF TypeOK, Flat, Holding

LEMMA InitWInv == ASSUME MaxDepth = 1, Init PROVE WInv
<1>1. Typed
  BY InitTyped
<1>2. Flat
  BY DEF Init, Flat
<1>3. WinnerProtected
  BY DEF Init, WinnerProtected, Holding
<1> QED BY <1>1, <1>2, <1>3 DEF WInv

LEMMA StepFlat ==
  ASSUME MaxDepth = 1, Typed, Flat, NEW c \in Contexts, Step(c)
  PROVE  Flat'
<1> USE DEF Typed, TypeOK, Flat
<1>1. CASE LockTestAndSet(c)
  BY <1>1 DEF LockTestAndSet
<1>2. CASE LockDisable(c)
  BY <1>2 DEF LockDisable
<1>3. CASE UnlockTest(c)
  BY <1>3 DEF UnlockTest
<1>4. CASE UnlockRestore(c)
  BY <1>4 DEF UnlockRestore
<1>5. CASE UnlockClear(c)
  BY <1>5 DEF UnlockClear
<1> QED BY <1>1, <1>2, <1>3, <1>4, <1>5 DEF Step, Finish

\* A step of one context leaves the calls of every other where they are.
LEMMA StepOthers ==
  ASSUME TypeOK, NEW c \in Contexts, Step(c), NEW d \in Contexts, d # c
  PROVE  pc'[d] = pc[d] /\ depth'[d] = depth[d] /\ entered'[d] = entered[d]
<1> USE DEF TypeOK
<1>1. CASE LockTestAndSet(c)
  BY <1>1 DEF LockTestAndSet
<1>2. CASE LockDisable(c)
  BY <1>2 DEF LockDisable
<1>3. CASE UnlockTest(c)
  BY <1>3 DEF UnlockTest
<1>4. CASE UnlockRestore(c)
  BY <1>4 DEF UnlockRestore
<1>5. CASE UnlockClear(c)
  BY <1>5 DEF UnlockClear
<1> QED BY <1>1, <1>2, <1>3, <1>4, <1>5 DEF Step, Finish

LEMMA StepCore ==
  ASSUME NEW c \in Contexts, Step(c)
  PROVE  UNCHANGED core /\ Running' = Running
  BY DEF Step, Finish, LockTestAndSet, LockDisable, UnlockTest, UnlockRestore,
         UnlockClear, core, Running

LEMMA StepWinner ==
  ASSUME MaxDepth = 1, WInv, NEW c \in Contexts, c = Running, Step(c)
  PROVE  WinnerProtected'
<1> USE DEF WInv
<1>1. Typed' /\ Flat'
  BY StepTyped, StepFlat
<1>2. Running' = Running
  BY StepCore
<1> SUFFICES ASSUME NEW d \in Contexts, Holding(d)', entered'[d] = "disabled"
             PROVE  posture' = "off" /\ d = Running
  BY <1>2 DEF WinnerProtected
<1>3. depth'[d] = 1 /\ pc'[d] = "run"
  BY <1>1, HoldingFlat DEF TypeOK, Typed, Flat, Holding
<1>4. CASE d = c
  <2> USE <1>3, <1>4 DEF Typed, TypeOK, Flat
  <2>1. CASE LockTestAndSet(c)
    BY <2>1 DEF LockTestAndSet
  <2>2. CASE LockDisable(c)
    BY <2>2 DEF LockDisable
  <2>3. CASE UnlockTest(c)
    BY <2>3 DEF UnlockTest
  <2>4. CASE UnlockRestore(c)
    BY <2>4 DEF UnlockRestore
  <2>5. CASE UnlockClear(c)
    BY <2>5 DEF UnlockClear
  <2> QED BY <2>1, <2>2, <2>3, <2>4, <2>5 DEF Step, Finish
<1>5. CASE d # c
  <2>1. pc[d] = "run" /\ depth[d] = 1 /\ entered[d] = "disabled"
    BY <1>3, <1>5, StepOthers DEF Typed
  <2>2. Holding(d)
    BY <2>1, HoldingFlat DEF Typed
  <2>3. d = Running
    BY <2>1, <2>2 DEF WinnerProtected
  <2> QED BY <2>3, <1>5
<1> QED BY <1>4, <1>5

LEMMA NextWInv == ASSUME MaxDepth = 1, WInv, [Next]_vars PROVE WInv'
<1> USE DEF WInv
<1>1. Typed'
  BY NextTyped
<1> HIDE DEF WInv
<1>2. CASE \E i \in Isrs : Interrupt(i)
  BY <1>1, <1>2 DEF WInv, Interrupt, Flat, WinnerProtected, Holding
<1>3. CASE InterruptReturn
  <2>1. ASSUME NEW c \in Contexts, Holding(c), c = Running
        PROVE  FALSE
    BY <1>3, <2>1 DEF InterruptReturn, Running, Busy, Holding, WInv, Typed, TypeOK
  <2> QED BY <1>1, <1>3, <2>1 DEF WInv, InterruptReturn, Flat, WinnerProtected, Holding
<1>4. CASE \E t \in Threads : Schedule(t)
  BY <1>1, <1>4 DEF WInv, Schedule, Flat, WinnerProtected, Holding
<1>5. CASE \E c \in Users : c = Running /\ Step(c)
  <2>1. PICK c \in Contexts : c = Running /\ Step(c)
    BY <1>5, ContextsAssumption
  <2> QED BY <1>1, <2>1, StepFlat, StepWinner DEF WInv
<1>6. CASE UNCHANGED vars
  BY <1>1, <1>6 DEF vars, WInv, Flat, WinnerProtected, Holding, Running
<1> QED BY <1>2, <1>3, <1>4, <1>5, <1>6 DEF Next

(* Whatever the priorities, and with ISRs among the users, a context whose  *)
(* own test_and_set set m_locked runs its section with interrupts off and   *)
(* without losing the core, as long as sections are not nested.             *)
THEOREM WinnerIsProtected ==
  ASSUME MaxDepth = 1
  PROVE  Spec => []WinnerProtected
<1>1. WInv => WinnerProtected BY DEF WInv
<1> QED BY <1>1, InitWInv, NextWInv, PTL DEF Spec

-----------------------------------------------------------------------------
(***************************************************************************)
(* The whole promise, for users of one priority.  The invariant says that  *)
(* one context at most is inside (OneInside): it is the loaded thread or   *)
(* was preempted by a thread that outranks it, and so is no user.  From    *)
(* that, flag, posture and saved posture are a function of where the one   *)
(* inside is (Agrees).                                                     *)
(***************************************************************************)
OneInside ==
    /\ \A c \in Contexts : Busy(c) =>
          c \in Users /\ (thread = c \/ Priority[thread] < Priority[c])
    /\ \A c, d \in Contexts : Busy(c) /\ Busy(d) => c = d

Agrees ==
    \A c \in Contexts : Busy(c) =>
        /\ locked
        /\ pc[c] \in {"disable", "clear"} => posture = "on"
        /\ pc[c] \in {"run", "restore"} =>
              posture = "off" /\ interruptSave = "on" /\ c = Running

IInv == Typed /\ Flat /\ OneInside /\ Agrees /\ NothingLeftBehind

LEMMA InitIInv == ASSUME OnePriority, Init PROVE IInv
<1>1. Typed
  BY InitTyped
<1>2. \A c \in Contexts : pc[c] = "run" /\ depth[c] = 0
  BY DEF Init
<1>3. Flat /\ OneInside /\ Agrees
  BY <1>2 DEF Flat, OneInside, Agrees, Busy
<1>4. NothingLeftBehind
  BY DEF Init, NothingLeftBehind
<1> QED BY <1>1, <1>3, <1>4 DEF IInv

\* A running user is a thread, and nobody else is inside.
LEMMA RunnerAlone ==
  ASSUME OnePriority, IInv, NEW c \in Users, c = Running
  PROVE  /\ isrStack = <<>> /\ c = thread /\ c \in Contexts
         /\ \A d \in Contexts : Busy(d) => d = c
<1>1. c \in Threads /\ c \in Contexts
  BY DEF OnePriority, Contexts
<1>2. isrStack = <<>> /\ c = thread
  BY <1>1, ContextsAssumption DEF Running, IInv, Typed, TypeOK
<1>3. ASSUME NEW d \in Contexts, Busy(d) PROVE d = c
  <2>1. d \in Users /\ (thread = d \/ Priority[thread] < Priority[d])
    BY <1>3 DEF IInv, OneInside
  <2>2. Priority[thread] = Priority[d] /\ Priority[d] \in Nat
    BY <2>1, <1>2, <1>1, <1>3, ContextsAssumption DEF OnePriority
  <2> QED BY <2>1, <2>2, <1>2
<1> QED BY <1>1, <1>2, <1>3

LEMMA StepIInv ==
  ASSUME OnePriority, IInv, NEW c \in Users, c = Running, Step(c)
  PROVE  IInv'
<1>1. /\ isrStack = <<>> /\ c = thread /\ c \in Contexts
      /\ \A d \in Contexts : Busy(d) => d = c
  BY RunnerAlone
<1>2. MaxDepth = 1
  BY DEF OnePriority
<1>3. Typed' /\ Flat'
  BY <1>1, <1>2, StepTyped, StepFlat DEF IInv
<1>4. thread' = thread /\ isrStack' = isrStack /\ Running' = c
  BY <1>1, StepCore DEF core
<1>5. \A d \in Contexts : Busy(d)' => d = c
  BY <1>1, StepOthers DEF IInv, Typed, Busy
<1>6. OneInside'
  BY <1>1, <1>4, <1>5 DEF OneInside
<1>7. Agrees' /\ NothingLeftBehind'
  <2> USE <1>1, <1>2, <1>4, <1>5 DEF IInv, Typed, TypeOK, Flat, Agrees,
          NothingLeftBehind, Busy
  <2>1. CASE LockTestAndSet(c)
    BY <2>1 DEF LockTestAndSet
  <2>2. CASE LockDisable(c)
    BY <2>2 DEF LockDisable
  <2>3. CASE UnlockTest(c)
    BY <2>3 DEF UnlockTest
  <2>4. CASE UnlockRestore(c)
    BY <2>4 DEF UnlockRestore
  <2>5. CASE UnlockClear(c)
    BY <2>5 DEF UnlockClear
  <2> QED BY <2>1, <2>2, <2>3, <2>4, <2>5 DEF Step, Finish
<1> QED BY <1>3, <1>6, <1>7 DEF IInv

LEMMA NextIInv == ASSUME OnePriority, IInv, [Next]_vars PROVE IInv'
<1>1. Typed'
  BY NextTyped DEF IInv
<1>2. CASE \E i \in Isrs : Interrupt(i)
  BY <1>1, <1>2 DEF IInv, Interrupt, Flat, OneInside, Agrees, NothingLeftBehind, Busy
<1>3. CASE InterruptReturn
  <2>1. \A c \in Contexts : Busy(c) => c # Running
    BY <1>3 DEF InterruptReturn, Running
  <2> QED BY <1>1, <1>3, <2>1 DEF IInv, InterruptReturn, Flat, OneInside, Agrees,
                NothingLeftBehind, Busy, Typed, TypeOK
<1>4. CASE \E t \in Threads : Schedule(t)
  BY <1>1, <1>4, ContextsAssumption DEF IInv, Schedule, Flat, OneInside, Agrees,
       NothingLeftBehind, Busy, OnePriority, Typed, TypeOK
<1>5. CASE \E c \in Users : c = Running /\ Step(c)
  BY <1>5, StepIInv
<1>6. CASE UNCHANGED vars
  BY <1>1, <1>6 DEF vars, IInv, Flat, OneInside, Agrees, NothingLeftBehind, Busy, Running
<1> QED BY <1>2, <1>3, <1>4, <1>5, <1>6 DEF Next

LEMMA IInvProtects == ASSUME OnePriority, IInv PROVE Protected
<1> SUFFICES ASSUME NEW c \in Contexts, Holding(c)
             PROVE  posture = "off" /\ c = Running
  BY DEF Protected
<1>1. pc[c] = "run" /\ depth[c] = 1
  BY HoldingFlat DEF IInv, Typed, OnePriority
<1> QED BY <1>1 DEF IInv, Agrees, Busy

(* Users of one priority get what kernel.hpp:22 promises: between lock()    *)
(* and unlock() no interrupt is taken and no other thread runs.             *)
THEOREM SectionIsProtected ==
  ASSUME OnePriority
  PROVE  Spec => []Protected
<1> QED BY InitIInv, NextIInv, IInvProtects, PTL DEF Spec

(* ... and leave interrupts on and the flag clear behind them.              *)
THEOREM SectionLeavesNothing ==
  ASSUME OnePriority
  PROVE  Spec => []NothingLeftBehind
<1>1. IInv => NothingLeftBehind BY DEF IInv
<1> QED BY <1>1, InitIInv, NextIInv, PTL DEF Spec

-----------------------------------------------------------------------------
(***************************************************************************)
(* Under the invariant the owner is the running context while posture and  *)
(* program counter say it is inside, and nobody otherwise.                 *)
(***************************************************************************)
OwnerFits ==
    /\ Running \in Contexts
    /\ \A c \in Contexts : Holding(c) => Owner = c /\ c = Running
    /\ (\A c \in Contexts : ~Holding(c)) => Owner = Nobody

LEMMA OwnerIs == ASSUME OnePriority, IInv PROVE OwnerFits
<1>1. ASSUME NEW c \in Contexts, Holding(c) PROVE Owner = c /\ c = Running
  <2>1. \A d \in Contexts : Holding(d) => d = Running
    BY IInvProtects DEF Protected
  <2>2. Holder \in Contexts /\ Holding(Holder)
    BY <1>1 DEF Holder
  <2> QED BY <1>1, <2>1, <2>2 DEF Owner
<1>2. (\A c \in Contexts : ~Holding(c)) => Owner = Nobody
  BY DEF Owner
<1>3. Running \in Contexts
  BY RunningInContexts DEF IInv, Typed
<1> QED BY <1>1, <1>2, <1>3 DEF OwnerFits

LEMMA OwnerIsNext == ASSUME OnePriority PROVE IInv' => OwnerFits'
<1>1. IInv => OwnerFits
  BY OwnerIs
<1> QED BY <1>1, PTL

LEMMA StepIdeal ==
  ASSUME OnePriority, IInv, IInv', NEW c \in Users, c = Running, Step(c)
  PROVE  [Ideal!Next]_<<Running, Owner>>
<1>0. OwnerFits /\ OwnerFits'
  BY OwnerIs, OwnerIsNext
<1>1. c \in Contexts /\ Running' = Running
  BY RunnerAlone, StepCore
<1>2. \A d \in Contexts \ {c} : ~Holding(d) /\ ~Holding(d)'
  BY <1>0, <1>1 DEF OwnerFits
<1>3. Holding(c) => Owner = c
  BY <1>0, <1>1 DEF OwnerFits
<1>4. ~Holding(c) => Owner = Nobody
  BY <1>0, <1>1, <1>2 DEF OwnerFits
<1>5. Holding(c)' => Owner' = c
  BY <1>0, <1>1 DEF OwnerFits
<1>6. ~Holding(c)' => Owner' = Nobody
  BY <1>0, <1>1, <1>2 DEF OwnerFits
<1>7. CASE Holding(c) <=> Holding(c)'
  <2>1. Owner' = Owner
    BY <1>3, <1>4, <1>5, <1>6, <1>7
  <2> QED BY <1>1, <2>1
<1>8. CASE ~Holding(c) /\ Holding(c)'
  BY <1>1, <1>4, <1>5, <1>8 DEF Ideal!Next, Ideal!Enter
<1>9. CASE Holding(c) /\ ~Holding(c)'
  BY <1>1, <1>3, <1>6, <1>9 DEF Ideal!Next, Ideal!Leave
<1> QED BY <1>7, <1>8, <1>9

\* A switch of context happens only when nobody is inside.
LEMMA SwitchIdeal ==
  ASSUME OnePriority, IInv, IInv', UNCHANGED <<pc, depth>>,
         \A c \in Contexts : ~Holding(c)
  PROVE  [Ideal!Next]_<<Running, Owner>>
<1>1. Owner = Nobody /\ Owner' = Nobody
  <2>1. \A c \in Contexts : ~Holding(c)'
    BY DEF Holding
  <2> QED BY <2>1, OwnerIs, OwnerIsNext DEF OwnerFits
<1>2. Running' \in Contexts
  BY OwnerIsNext DEF OwnerFits
<1> QED BY <1>1, <1>2 DEF Ideal!Next, Ideal!Switch

LEMMA NextIdeal ==
  ASSUME OnePriority, IInv, IInv', [Next]_vars
  PROVE  [Ideal!Next]_<<Running, Owner>>
<1>1. ASSUME posture = "on" PROVE \A c \in Contexts : ~Holding(c)
  BY <1>1, IInvProtects DEF Protected
<1>2. CASE \E i \in Isrs : Interrupt(i)
  BY <1>1, <1>2, SwitchIdeal DEF Interrupt
<1>3. CASE InterruptReturn
  <2>1. ASSUME NEW c \in Contexts, Holding(c) PROVE FALSE
    <3>1. c = Running
      BY <2>1, IInvProtects DEF Protected
    <3>2. Busy(c)
      BY <2>1 DEF Holding, Busy, IInv, Typed, TypeOK
    <3> QED BY <1>3, <3>1, <3>2 DEF InterruptReturn, Running
  <2> QED BY <1>3, <2>1, SwitchIdeal DEF InterruptReturn
<1>4. CASE \E t \in Threads : Schedule(t)
  BY <1>1, <1>4, SwitchIdeal DEF Schedule
<1>5. CASE \E c \in Users : c = Running /\ Step(c)
  BY <1>5, StepIdeal
<1>6. CASE UNCHANGED vars
  BY <1>6 DEF vars, Running, Owner, Holder, Holding
<1> QED BY <1>2, <1>3, <1>4, <1>5, <1>6 DEF Next

(* For users of one priority the flag and the saved posture implement the   *)
(* section of IdealCriticalSection: entered only when nobody is inside, and *)
(* the core given to no other context until it is left.                     *)
THEOREM Implements ==
  ASSUME OnePriority
  PROVE  Spec => ImplementsIdeal
<1>1. Init => Ideal!Init
  <2> SUFFICES ASSUME Init PROVE Ideal!Init
    OBVIOUS
  <2>1. IInv
    BY InitIInv
  <2>2. \A c \in Contexts : ~Holding(c)
    BY DEF Init, Holding
  <2> QED BY <2>1, <2>2, OwnerIs DEF OwnerFits, Ideal!Init
<1>2. Spec => []IInv
  BY InitIInv, NextIInv, PTL DEF Spec
<1> QED BY <1>1, <1>2, NextIdeal, PTL DEF Spec, ImplementsIdeal, Ideal!Spec

-----------------------------------------------------------------------------
(***************************************************************************)
(* The critical section of join() may be taken as one step whenever the    *)
(* users of the class have one priority, whatever the priority of the      *)
(* joined thread: the step on which Thread.tla rests.                      *)
(***************************************************************************)
JoinInv ==
    /\ JoinTypeOK
    /\ exitSignal => join \in {"published", "waiting", "signalled"}
    /\ join \in {"published", "waiting"} => exitSignal
    /\ join = "joinable" => Holding(Joiner) /\ ~exited
    /\ join = "waiting" => ~exited
    /\ join = "published" /\ exited => count = 1

\* Every step of the composition is a step of CriticalSection or none.
LEMMA JoinNextIsNext == ASSUME [JoinNext]_allVars PROVE [Next]_vars
<1>1. CASE JoinerGuard
  BY <1>1, RolesAssumption DEF JoinerGuard, JoinerInPlace, Executes, Next, Step, Finish
<1>2. CASE Others
  BY <1>2 DEF Others, Next, Executes
<1>3. CASE JoinerChecks \/ JoinerPublishes \/ JoinerAcquires \/ JoinerReturns \/ TargetExits
  BY <1>3 DEF JoinerChecks, JoinerPublishes, JoinerAcquires, JoinerReturns, TargetExits
<1>4. CASE UNCHANGED allVars
  BY <1>4 DEF allVars
<1> QED BY <1>1, <1>2, <1>3, <1>4 DEF JoinNext

LEMMA InitJoinInv == ASSUME OnePriority, JoinInit PROVE IInv /\ JoinInv
<1>1. IInv
  BY InitIInv DEF JoinInit
<1>2. JoinInv
  <2>1. TypeOK
    BY <1>1 DEF IInv, Typed
  <2>2. count \in 0..1
    BY DEF JoinInit
  <2> QED BY <2>1, <2>2 DEF JoinInit, JoinInv, JoinTypeOK
<1> QED BY <1>1, <1>2

\* While the joiner holds the section no other context executes.
LEMMA OthersKeepHolding ==
  ASSUME OnePriority, IInv, Others, Holding(Joiner)
  PROVE  Holding(Joiner)'
<1>0. Joiner \in Contexts /\ posture = "off" /\ Joiner = Running
  BY IInvProtects, RolesAssumption DEF Protected, Contexts
<1>1. CASE \E i \in Isrs : Interrupt(i)
  BY <1>0, <1>1 DEF Interrupt
<1>2. CASE InterruptReturn
  BY <1>2 DEF InterruptReturn, Holding
<1>3. CASE \E t \in Threads : CanRun(t) /\ Schedule(t)
  BY <1>0, <1>3 DEF Schedule
<1>4. CASE \E c \in Users \ {Joiner} : Executes(c) /\ Step(c)
  BY <1>0, <1>4 DEF Executes
<1> QED BY <1>1, <1>2, <1>3, <1>4 DEF Others

LEMMA NextJoinInv ==
  ASSUME OnePriority, IInv, IInv', JoinInv, [JoinNext]_allVars
  PROVE  JoinInv'
<1> USE DEF JoinInv, JoinTypeOK
<1>1. TypeOK'
  BY DEF IInv, Typed
<1>2. CASE JoinerGuard
  <2>1. UNCHANGED joinVars /\ join \in {"start", "published", "unjoinable"}
    BY <1>2 DEF JoinerGuard, JoinerInPlace
  <2> QED BY <1>1, <2>1 DEF joinVars
<1>3. CASE JoinerChecks
  BY <1>1, <1>3 DEF JoinerChecks, vars, Holding
<1>4. CASE JoinerPublishes
  BY <1>1, <1>4 DEF JoinerPublishes, vars, Holding
<1>5. CASE JoinerAcquires
  BY <1>1, <1>5 DEF JoinerAcquires, vars, Holding
<1>6. CASE JoinerReturns
  <2>1. count' \in 0..1 /\ exited' = exited /\ join' = "done"
    BY <1>6 DEF JoinerReturns
  <2>2. ~exitSignal'
    BY <1>6 DEF JoinerReturns
  <2>3. exitSignal' \in BOOLEAN
    BY <1>6 DEF JoinerReturns
  <2> QED BY <1>1, <2>1, <2>2, <2>3
<1>7. CASE TargetExits
  <2>1. ASSUME Holding(Joiner) PROVE FALSE
    BY <1>7, <2>1, IInvProtects, RolesAssumption
       DEF TargetExits, Executes, Protected, Contexts
  <2> QED BY <1>1, <1>7, <2>1 DEF TargetExits, vars
<1>8. CASE Others
  <2>1. UNCHANGED joinVars
    BY <1>8 DEF Others
  <2> QED BY <1>1, <1>8, <2>1, OthersKeepHolding DEF joinVars
<1>9. CASE UNCHANGED allVars
  BY <1>1, <1>9 DEF allVars, vars, joinVars, Holding
<1> QED BY <1>2, <1>3, <1>4, <1>5, <1>6, <1>7, <1>8, <1>9 DEF JoinNext

LEMMA JoinInvariant == ASSUME OnePriority PROVE JoinSpec => [](IInv /\ JoinInv)
<1>1. IInv /\ JoinInv /\ [JoinNext]_allVars => IInv' /\ JoinInv'
  BY JoinNextIsNext, NextIInv, NextJoinInv
<1> QED BY <1>1, InitJoinInv, PTL DEF JoinSpec

(* A target found joinable cannot finish before m_exitSignalPtr is assigned *)
(* (thread.hpp:321).                                                        *)
THEOREM TargetStandsStill == ASSUME OnePriority PROVE JoinSpec => []TargetStands
<1>1. JoinInv => TargetStands BY DEF JoinInv, TargetStands
<1> QED BY <1>1, JoinInvariant, PTL

(* The joiner never sleeps after its target finished.                       *)
THEOREM JoinerAlwaysWoken == ASSUME OnePriority PROVE JoinSpec => []JoinerIsWoken
<1>1. JoinInv => JoinerIsWoken BY DEF JoinInv, JoinerIsWoken
<1> QED BY <1>1, JoinInvariant, PTL

(* Every variable of the joiner, its target and the section keeps its type. *)
THEOREM JoinTypeCorrect == ASSUME OnePriority PROVE JoinSpec => []JoinTypeOK
<1>1. JoinInv => JoinTypeOK BY DEF JoinInv
<1> QED BY <1>1, JoinInvariant, PTL
=============================================================================
