---------------------------- MODULE ThreadProofs ----------------------------
(***************************************************************************)
(* join() on any number of threads, for an application that lets one       *)
(* thread at a time join a thread and does not terminate threads that are  *)
(* inside join().  Targets may exit, be terminated, be reset and restarted,*)
(* and joiners be suspended and have their wait aborted, at any step.      *)
(***************************************************************************)
EXTENDS ThreadLife, TLAPS

(***************************************************************************)
(* The invariant.  A published joiner and the pointer of its target name   *)
(* each other (Linked), because no second joiner overwrites the pointer    *)
(* (Alone) and no joiner disappears (Lives).                               *)
(***************************************************************************)
Lives ==
    \A j \in Threads :
        /\ state[j] \in Finished => pc[j] = "run"
        /\ pc[j] # "run" => target[j] \in Threads
        /\ Waiting(j) => pc[j] = "acquire" /\ count[j] = 0

Alone ==
    \A j, o \in Threads : InJoin(j) /\ InJoin(o) /\ target[j] = target[o] => j = o

Linked ==
    /\ \A j \in Threads : Published(j) => target[j] # j /\ exitSignal[target[j]] = j
    /\ PointerValid

Signalled ==
    \A j \in Threads :
        /\ pc[j] = "acquire" /\ state[target[j]] \in Finished => count[j] = 1
        /\ InJoin(j) /\ count[j] = 1 => sawExit[j]
        /\ pc[j] = "clear" /\ error[j] = "success" => sawExit[j]

IInv == TypeOK /\ Lives /\ Alone /\ Linked /\ Signalled

Courteous == SerialJoin = TRUE /\ KillJoiner = FALSE

LEMMA InitIInv == Init => IInv
<1> SUFFICES ASSUME Init PROVE IInv
  OBVIOUS
<1>1. TypeOK
  BY DEF Init, TypeOK, ThreadState
<1>2. Lives /\ Alone /\ Linked /\ Signalled
  BY ThreadsAssumption DEF Init, Lives, Alone, Linked, Signalled, PointerValid, Owns,
       Published, InJoin, Waiting, Finished
<1> QED BY <1>1, <1>2 DEF IInv

-----------------------------------------------------------------------------
LEMMA JoinIInv ==
  ASSUME Courteous, IInv, NEW j \in Threads, NEW t \in Threads, Join(j, t)
  PROVE  IInv'
<1> USE DEF IInv, TypeOK, Join, Runs
<1>1. TypeOK'
  OBVIOUS
<1>2. Lives'
  BY DEF Lives, Waiting, Finished
<1>3. Alone'
  BY DEF Alone, InJoin, Courteous
<1>4. Linked'
  BY DEF Linked, PointerValid, Owns, Published
<1>5. Signalled'
  BY DEF Signalled, InJoin, Finished
<1> QED BY <1>1, <1>2, <1>3, <1>4, <1>5

LEMMA JoinEnterIInv ==
  ASSUME IInv, NEW j \in Threads, JoinEnter(j)
  PROVE  IInv'
<1>1. TypeOK'
  <2> USE DEF JoinEnter, TypeOK, IInv
  <2>1. target[j] \in Threads
    BY DEF Lives
  <2>2. CASE Joinable(j, target[j])
    BY <2>1, <2>2
  <2>3. CASE ~Joinable(j, target[j])
    <3>1. /\ pc' \in [Threads -> {"run", "enter", "acquire", "clear", "resume"}]
          /\ target' \in [Threads -> Threads \cup {Null}]
          /\ count' \in [Threads -> 0..1]
      BY <2>3 DEF Return
    <3> QED BY <2>3, <3>1 DEF Return
  <2> QED BY <2>2, <2>3
<1> USE DEF IInv, TypeOK, JoinEnter, Return, Joinable
<1>2. Lives'
  BY DEF Lives, Waiting, Finished
<1>3. Alone'
  BY DEF Alone, InJoin
<1>4. Linked'
  BY DEF Linked, PointerValid, Owns, Published, Alone, InJoin, Lives
<1>5. Signalled'
  BY DEF Signalled, InJoin, Finished
<1> QED BY <1>1, <1>2, <1>3, <1>4, <1>5

LEMMA JoinAcquireIInv ==
  ASSUME IInv, NEW j \in Threads, JoinAcquire(j)
  PROVE  IInv'
<1> USE DEF IInv, TypeOK, JoinAcquire
<1>1. TypeOK'
  BY DEF ThreadState
<1>2. Lives'
  BY DEF Lives, Waiting, Finished
<1>3. Alone'
  BY DEF Alone, InJoin
<1>4. Linked'
  BY DEF Linked, PointerValid, Owns, Published
<1>5. Signalled'
  BY DEF Signalled, InJoin, Finished, Lives
<1> QED BY <1>1, <1>2, <1>3, <1>4, <1>5

LEMMA JoinClearIInv ==
  ASSUME IInv, NEW j \in Threads, JoinClear(j)
  PROVE  IInv'
<1> USE DEF IInv, TypeOK, JoinClear, Return
<1>1. TypeOK'
  BY DEF Lives
<1>2. Lives'
  BY DEF Lives, Waiting, Finished
<1>3. Alone'
  BY DEF Alone, InJoin
<1>4. Linked'
  BY ThreadsAssumption DEF Linked, PointerValid, Owns, Published, Alone, InJoin, Lives
<1>5. Signalled'
  BY DEF Signalled, InJoin, Finished
<1> QED BY <1>1, <1>2, <1>3, <1>4, <1>5

-----------------------------------------------------------------------------
(***************************************************************************)
(* The end of a thread that is not inside join().                          *)
(***************************************************************************)
LEMMA EndIInv ==
  ASSUME IInv, NEW t \in Threads, state[t] \notin Finished, ~InJoin(t),
         NEW final \in Finished, End(t, final)
  PROVE  IInv'
<1> USE DEF IInv, End
<1>1. CASE \E j \in Threads : exitSignal[t] = j /\ InJoin(j) /\ Release(t, j, final)
  <2>1. PICK j \in Threads : exitSignal[t] = j /\ InJoin(j) /\ Release(t, j, final)
    BY <1>1
  <2>2. Published(j) /\ target[j] = t /\ j # t
    BY <2>1 DEF Linked, PointerValid, Owns
  <2> USE <2>1, <2>2 DEF Release, TypeOK
  <2>3. TypeOK'
    <3>1. state' \in [Threads -> ThreadState]
      BY DEF Finished, ThreadState, Awake
    <3>2. /\ pc' \in [Threads -> {"run", "enter", "acquire", "clear", "resume"}]
          /\ target' \in [Threads -> Threads \cup {Null}]
          /\ count' \in [Threads -> 0..1]
      OBVIOUS
    <3>3. /\ delayed' \in [Threads -> BOOLEAN]
          /\ exitSignal' \in [Threads -> Threads \cup {Null}]
          /\ error' \in [Threads -> {"none", "success", "waitAborted"}]
          /\ sawExit' \in [Threads -> BOOLEAN]
      OBVIOUS
    <3> QED BY <3>1, <3>2, <3>3 DEF TypeOK
  <2>4. Lives'
    BY DEF Lives, Waiting, Finished, Awake, Published, InJoin
  <2>5. Alone'
    BY DEF Alone, InJoin, Published
  <2>6. Linked'
    BY DEF Linked, PointerValid, Owns, Published, InJoin
  <2>7. Signalled'
    <3>0. sawExit'[j] /\ \A o \in Threads \ {t, j} : sawExit'[o] = sawExit[o]
      BY Zenon
    <3>1. ASSUME NEW o \in Threads, pc'[o] = "acquire", state'[target'[o]] \in Finished
          PROVE  count'[o] = 1
      BY <3>1 DEF Signalled, Finished, Awake, Linked, Lives, Published, InJoin
    <3>2. ASSUME NEW o \in Threads, InJoin(o)', count'[o] = 1
          PROVE  sawExit'[o]
      <4>1. CASE o = j
        BY <3>0, <4>1
      <4>2. CASE o # j
        <5>1. o # t /\ InJoin(o) /\ count[o] = 1
          BY <3>2, <4>2 DEF InJoin
        <5> QED BY <3>0, <4>2, <5>1 DEF Signalled
      <4> QED BY <4>1, <4>2
    <3>3. ASSUME NEW o \in Threads, pc'[o] = "clear", error'[o] = "success"
          PROVE  sawExit'[o]
      <4>1. CASE o = j
        BY <3>0, <4>1
      <4>2. CASE o # j
        <5>1. o # t /\ pc[o] = "clear" /\ error[o] = "success"
          BY <3>3, <4>2
        <5> QED BY <3>0, <4>2, <5>1 DEF Signalled
      <4> QED BY <4>1, <4>2
    <3> QED BY <3>1, <3>2, <3>3 DEF Signalled
  <2> QED BY <2>3, <2>4, <2>5, <2>6, <2>7
<1>2. CASE (\A j \in Threads : exitSignal[t] = j => ~Owns(j, t)) /\ NoRelease(t, final)
  <2> USE <1>2 DEF NoRelease, TypeOK
  <2>1. TypeOK'
    BY DEF Finished, ThreadState
  <2>2. Lives'
    BY DEF Lives, Waiting, Finished, InJoin
  <2>3. Alone'
    BY DEF Alone, InJoin
  <2>4. Linked'
    BY DEF Linked, PointerValid, Owns, Published, InJoin
  <2>5. \A o \in Threads : Published(o) => target[o] # t
    BY DEF Linked, PointerValid
  <2>6. Signalled'
    BY <2>5 DEF Signalled, InJoin, Published
  <2> QED BY <2>1, <2>2, <2>3, <2>4, <2>6
<1> QED BY <1>1, <1>2

\* Calls that touch neither pointers nor semaphores, and of the program
\* counters only one that is outside join() before and after.
LEMMA QuietIInv ==
  ASSUME IInv, TypeOK',
         UNCHANGED <<exitSignal, count, error, sawExit>>,
         \A o \in Threads :
            \/ pc'[o] = pc[o] /\ target'[o] = target[o]
            \/ /\ ~InJoin(o) /\ ~InJoin(o)'
               /\ state'[o] \notin Finished
               /\ pc'[o] # "run" => target'[o] \in Threads,
         \A o \in Threads : state'[o] \in Finished => state[o] \in Finished,
         \A o \in Threads : Waiting(o)' => Waiting(o)
  PROVE  IInv'
<1> USE DEF IInv
<1>1. Lives'
  BY DEF Lives, Waiting, InJoin
<1>2. Alone'
  BY DEF Alone, InJoin
<1>3. Linked'
  BY DEF Linked, PointerValid, Owns, Published, InJoin
<1>4. Signalled'
  BY DEF Signalled, InJoin, Lives
<1> QED BY <1>1, <1>2, <1>3, <1>4

LEMMA AbortIInv ==
  ASSUME IInv, NEW t \in Threads, AbortWait(t)
  PROVE  IInv'
<1> USE DEF IInv, TypeOK, AbortWait, Waiting, Awake
<1>1. TypeOK'
  BY DEF ThreadState
<1>2. Lives'
  BY DEF Lives, Finished
<1>3. Alone'
  BY DEF Alone, InJoin, Lives
<1>4. Linked'
  BY DEF Linked, PointerValid, Owns, Published, Lives
<1>5. Signalled'
  BY DEF Signalled, InJoin, Finished, Lives
<1> QED BY <1>1, <1>2, <1>3, <1>4, <1>5

LEMMA NextIInv == ASSUME Courteous, IInv, [Next]_vars PROVE IInv'
<1>1. ASSUME NEW j \in Threads, NEW t \in Threads, Join(j, t) PROVE IInv'
  BY <1>1, JoinIInv
<1>2. ASSUME NEW j \in Threads, JoinStep(j) PROVE IInv'
  BY <1>2, JoinEnterIInv, JoinAcquireIInv, JoinClearIInv DEF JoinStep
<1>3. ASSUME NEW t \in Threads, Exit(t) PROVE IInv'
  <2>1. state[t] \notin Finished /\ ~InJoin(t) /\ "completed" \in Finished
    BY <1>3 DEF Exit, Runs, Finished, InJoin
  <2> QED BY <1>3, <2>1, EndIInv DEF Exit
<1>4. ASSUME NEW t \in Threads, Terminate(t) PROVE IInv'
  <2>1. state[t] \notin Finished /\ ~InJoin(t) /\ "terminated" \in Finished
    BY <1>4 DEF Terminate, Courteous, Finished
  <2> QED BY <1>4, <2>1, EndIInv DEF Terminate
<1>5. ASSUME NEW c \in Threads, NEW t \in Threads, RestartReset(c, t) PROVE IInv'
  <2> USE <1>5 DEF RestartReset, Runs, IInv
  <2>1. TypeOK'
    BY DEF TypeOK, ThreadState
  <2> QED BY <2>1, QuietIInv DEF TypeOK, Waiting, InJoin, Finished
<1>6. ASSUME NEW c \in Threads, RestartResume(c) PROVE IInv'
  <2> USE <1>6 DEF RestartResume, Resumed, IInv
  <2>1. TypeOK'
    BY DEF TypeOK, ThreadState
  <2> QED BY <2>1, QuietIInv DEF TypeOK, Waiting, InJoin, Finished, Lives
<1>7. ASSUME NEW t \in Threads, Reset(t) PROVE IInv'
  <2>1. TypeOK'
    BY <1>7 DEF Reset, IInv, TypeOK, ThreadState
  <2> QED BY <1>7, <2>1, QuietIInv DEF Reset, IInv, TypeOK, Waiting, Finished
<1>8. ASSUME NEW t \in Threads, Resume(t) PROVE IInv'
  <2>1. TypeOK'
    BY <1>8 DEF Resume, Resumed, IInv, TypeOK, ThreadState
  <2> QED BY <1>8, <2>1, QuietIInv DEF Resume, Resumed, IInv, TypeOK, Waiting, Finished
<1>9. ASSUME NEW t \in Threads, Suspend(t) PROVE IInv'
  <2>1. TypeOK'
    BY <1>9 DEF Suspend, IInv, TypeOK, ThreadState
  <2> QED BY <1>9, <2>1, QuietIInv DEF Suspend, IInv, TypeOK, Waiting, Finished
<1>10. ASSUME NEW t \in Threads, Sleep(t) PROVE IInv'
  <2>1. TypeOK'
    BY <1>10 DEF Sleep, IInv, TypeOK, ThreadState
  <2> QED BY <1>10, <2>1, QuietIInv DEF Sleep, IInv, TypeOK, Waiting, Finished
<1>11. ASSUME NEW t \in Threads, WakeUp(t) PROVE IInv'
  <2>1. TypeOK'
    BY <1>11 DEF WakeUp, Awake, IInv, TypeOK, ThreadState
  <2> QED BY <1>11, <2>1, QuietIInv DEF WakeUp, Awake, IInv, TypeOK, Waiting, Finished
<1>12. ASSUME NEW t \in Threads, AbortWait(t) PROVE IInv'
  BY <1>12, AbortIInv
<1>13. CASE UNCHANGED vars
  BY <1>13, QuietIInv DEF vars, IInv, TypeOK, Waiting
<1> QED BY <1>1, <1>2, <1>3, <1>4, <1>5, <1>6, <1>7, <1>8, <1>9, <1>10, <1>11,
         <1>12, <1>13 DEF Next

-----------------------------------------------------------------------------
(* Every variable of threads and joins keeps its type.                      *)
THEOREM TypeCorrect == ASSUME Courteous PROVE Spec => []TypeOK
<1>1. IInv => TypeOK BY DEF IInv
<1> QED BY <1>1, InitIInv, NextIInv, PTL DEF Spec

(* No wake-up of join() is lost: a joiner only sleeps while its target can  *)
(* still finish, and finds the release if it finished before the wait.      *)
THEOREM JoinLosesNoWakeup == ASSUME Courteous PROVE Spec => []NoLostWakeup
<1>1. IInv => NoLostWakeup
  BY DEF IInv, NoLostWakeup, Signalled, Linked, Lives, Published
<1> QED BY <1>1, InitIInv, NextIInv, PTL DEF Spec

(* m_exitSignalPtr never points to a semaphore that is gone.                *)
THEOREM ExitPointerValid == ASSUME Courteous PROVE Spec => []PointerValid
<1>1. IInv => PointerValid BY DEF IInv, Linked
<1> QED BY <1>1, InitIInv, NextIInv, PTL DEF Spec

(* A join() that succeeded saw its target finish.                           *)
THEOREM JoinSuccessMeansExit == ASSUME Courteous PROVE Spec => []SuccessMeansExit
<1>1. IInv => SuccessMeansExit BY DEF IInv, Signalled, SuccessMeansExit
<1> QED BY <1>1, InitIInv, NextIInv, PTL DEF Spec

(* The assertion at the head of join() (thread.hpp:317) never fails.        *)
THEOREM JoinAssertHolds == ASSUME Courteous PROVE Spec => JoinAssert
<1>1. ASSUME IInv, NEW j \in Threads, NEW t \in Threads, Join(j, t)
      PROVE  exitSignal[t] = Null
  BY <1>1 DEF Join, Courteous, IInv, TypeOK, Linked, PointerValid, Owns, Published, InJoin
<1>2. IInv /\ [Next]_vars
        => [\A j, t \in Threads : Join(j, t) => exitSignal[t] = Null]_vars
  BY <1>1
<1> QED BY <1>2, InitIInv, NextIInv, PTL DEF Spec, JoinAssert

-----------------------------------------------------------------------------
(***************************************************************************)
(* Threads that are constructed and destroyed.  A thread whose object is   *)
(* not whole stands still, and nobody is inside a call on it: so a new     *)
(* m_exitSignalPtr replaces a null pointer, and to the others construction *)
(* looks like reset() and destruction like terminate().                    *)
(***************************************************************************)
StandsStill(t) ==
    /\ state[t] \in Finished \cup {"suspended"}
    /\ ~InJoin(t)
    /\ \A c \in Threads : target[c] # t

Course(t) ==
    /\ ~Alive(t) => StandsStill(t)
    /\ life[t] = "terminated" => state[t] \in Finished
    /\ t \in created => life[t] \notin {"none", "allocated"}
    /\ life[t] # "none" => stack[t] # Nothing

Objects ==
    /\ life = [t \in Threads |-> life[t]]
    /\ \A t \in Threads \ Mortal : Alive(t)
    /\ created \subseteq Threads
    /\ stack = [t \in Mortal |-> stack[t]]

LifeIInv == IInv /\ Objects /\ \A t \in Mortal : Course(t)

Tidy == Courteous /\ Habits = LifeHabits /\ {"terminate", "reset"} \subseteq Calls

\* Under Tidy no thread is started by its constructor.
LEMMA NoneStartsAtOnce == ASSUME Tidy PROVE StartTypes = {"dontStart"}
BY DEF Tidy, LifeHabits, StartTypes

LEMMA InitLifeIInv == LifeInit => LifeIInv
<1> SUFFICES ASSUME LifeInit PROVE LifeIInv
  OBVIOUS
<1>1. IInv
  BY InitIInv DEF LifeInit
<1>2. ASSUME NEW t \in Mortal PROVE Course(t)
  BY LifeAssumption, ThreadsAssumption
     DEF LifeInit, Init, Course, StandsStill, Alive, InJoin
<1>3. Objects
  <2>1. ASSUME NEW t \in Threads \ Mortal PROVE Alive(t)
    BY DEF LifeInit, Alive
  <2> QED BY <2>1, LifeAssumption DEF Objects, LifeInit
<1> QED BY <1>1, <1>2, <1>3 DEF LifeIInv

\* To module Thread, every step is one of its own or none.
LEMMA LifeStepIsStep ==
  ASSUME Tidy, LifeIInv, [LifeNext]_allVars
  PROVE  [Next]_vars
<1>1. ASSUME NEW t \in Threads, RunStep(t) PROVE Next
  BY <1>1 DEF RunStep, Next
<1>2. ASSUME NEW t \in Threads, CallOn(t) PROVE Next
  BY <1>2 DEF CallOn, Next
<1>3. ASSUME NEW t \in Mortal, NEW startType \in StartTypes, Create(t, startType)
      PROVE  [Next]_vars
  <2> USE <1>3, NoneStartsAtOnce DEF Create, Becomes
  <2>1. t \in Threads /\ StandsStill(t)
    BY LifeAssumption DEF LifeIInv, Course, Alive
  <2>2. exitSignal[t] = Null
    BY <2>1 DEF LifeIInv, IInv, TypeOK, Linked, PointerValid, Owns, StandsStill
  <2>3. UNCHANGED exitSignal
    BY <2>1, <2>2 DEF LifeIInv, IInv, TypeOK
  <2>4. CASE state[t] = "suspended"
    BY <2>1, <2>3, <2>4 DEF vars, LifeIInv, IInv, TypeOK
  <2>5. CASE state[t] \in Finished
    BY <2>1, <2>3, <2>5 DEF Next, Reset, Tidy
  <2> QED BY <2>1, <2>4, <2>5 DEF StandsStill
<1>4. ASSUME NEW t \in Mortal, Destruct(t) PROVE [Next]_vars
  <2>1. t \in Threads /\ ~InJoin(t)
    BY <1>4, LifeAssumption DEF Destruct, Becomes, LifeIInv, Course, Alive, StandsStill
  <2> QED BY <1>4, <2>1 DEF Destruct, Next, Terminate, Tidy
<1>5. ASSUME NEW t \in Mortal,
             Allocate(t) \/ Register(t) \/ Complete(t) \/ Undress(t) \/ Delete(t)
      PROVE  UNCHANGED vars
  BY <1>5 DEF Allocate, Register, Complete, Undress, Delete
<1>6. CASE UNCHANGED allVars
  BY <1>6 DEF allVars, vars
<1> QED BY <1>1, <1>2, <1>3, <1>4, <1>5, <1>6 DEF LifeNext, LifeStep

\* The end of one thread, and another that stands still, or itself.
LEMMA EndLeavesAlone ==
  ASSUME IInv, NEW t \in Threads, NEW final \in Finished, End(t, final),
         NEW u \in Threads, StandsStill(u)
  PROVE  /\ StandsStill(u)'
         /\ state'[u] = IF u = t THEN final ELSE state[u]
<1> USE ThreadsAssumption DEF IInv, TypeOK, StandsStill, InJoin, Finished
<1>1. \A c \in Threads : target'[c] # u
  BY DEF End
<1>2. CASE \E j \in Threads : exitSignal[t] = j /\ InJoin(j) /\ Release(t, j, final)
  <2>1. PICK j \in Threads : InJoin(j) /\ Release(t, j, final)
    BY <1>2
  <2>2. j # u
    BY <2>1
  <2> QED BY <1>1, <2>1, <2>2 DEF Release
<1>3. CASE NoRelease(t, final)
  BY <1>1, <1>3 DEF NoRelease
<1> QED BY <1>2, <1>3 DEF End

\* Whatever threads and callers do, a thread that is not whole stands still.
LEMMA AwayStandsStill ==
  ASSUME Tidy, LifeIInv, NEW t \in Threads, RunStep(t) \/ CallOn(t),
         NEW u \in Mortal, ~Alive(u)
  PROVE  StandsStill(u)' /\ state'[u] = state[u]
<1> USE LifeAssumption, ThreadsAssumption DEF LifeIInv, IInv, TypeOK, StandsStill, InJoin, Finished
<1>1. u \in Threads /\ StandsStill(u)
  BY DEF Course
<1>2. CASE \E c \in Threads : Alive(t) /\ (Join(c, t) \/ RestartReset(c, t))
  BY <1>1, <1>2 DEF Join, RestartReset, Runs
<1>3. CASE JoinStep(t)
  BY <1>1, <1>3 DEF JoinStep, JoinEnter, JoinAcquire, JoinClear, Return
<1>4. CASE RestartResume(t)
  BY <1>1, <1>4 DEF RestartResume, Resumed
<1>5. ASSUME NEW final \in Finished, End(t, final), t # u
      PROVE  StandsStill(u)' /\ state'[u] = state[u]
  BY ONLY <1>1, <1>5, EndLeavesAlone, LifeIInv DEF LifeIInv
<1>6. CASE Exit(t)
  BY <1>1, <1>5, <1>6 DEF Exit, Runs
<1>7. CASE Alive(t) /\ Terminate(t)
  BY <1>1, <1>5, <1>7 DEF Terminate
<1>8. CASE Alive(t) /\ (Reset(t) \/ Suspend(t))
  BY <1>1, <1>8 DEF Reset, Suspend
<1>9. CASE Alive(t) /\ Resume(t)
  BY <1>1, <1>9 DEF Resume, Resumed
<1>10. CASE Sleep(t) \/ WakeUp(t)
  BY <1>1, <1>10 DEF Sleep, WakeUp, Runs
<1>11. CASE Alive(t) /\ AbortWait(t)
  BY <1>1, <1>11 DEF AbortWait
<1> QED BY <1>2, <1>3, <1>4, <1>6, <1>7, <1>8, <1>9, <1>10, <1>11 DEF RunStep, CallOn

\* An allocation is never empty.
LEMMA CutIsSomething ==
  ASSUME NEW t \in Mortal, NEW h \in Holes
  PROVE  Cut(t, h) # Nothing
<1>1. Need(t) \in Nat \ {0}
  <2> DEFINE words == (StackSize[t] + Word - 1) \div Word
  <2>1. words \in Nat
    BY LifeAssumption
  <2>2. words * Word \in Nat
    BY <2>1, LifeAssumption
  <2> QED BY <2>2, LifeAssumption DEF Need, Header
<1>2. h.from < h.to /\ h = [from |-> h.from, to |-> h.to]
  BY DEF Holes
<1> QED BY <1>1, <1>2 DEF Cut, Nothing

\* A step of one object, and the threads that are not its.
LEMMA OthersKeepCourse ==
  ASSUME LifeIInv, NEW t \in Mortal, IInv', Objects', Course(t)',
         \A u \in Mortal \ {t} :
            /\ life'[u] = life[u]
            /\ u \in created' <=> u \in created
            /\ stack'[u] = stack[u]
            /\ ~Alive(u) => StandsStill(u)' /\ state'[u] = state[u]
  PROVE  LifeIInv'
BY DEF LifeIInv, Course, Alive

LEMMA NextLifeIInv ==
  ASSUME Tidy, LifeIInv, [LifeNext]_allVars
  PROVE  LifeIInv'
<1>1. IInv'
  BY LifeStepIsStep, NextIInv DEF LifeIInv, Tidy
<1>2. ASSUME NEW t \in Threads, RunStep(t) \/ CallOn(t), UNCHANGED lifeVars
      PROVE  LifeIInv'
  <2>1. ASSUME NEW u \in Mortal, ~Alive(u) PROVE StandsStill(u)' /\ state'[u] = state[u]
    BY <1>2, <2>1, AwayStandsStill
  <2>2. Objects'
    BY <1>2 DEF LifeIInv, Objects, Alive, lifeVars
  <2>3. \A u \in Mortal : Course(u)'
    BY <1>2, <2>1 DEF LifeIInv, Course, Alive, lifeVars
  <2> QED BY <1>1, <2>2, <2>3 DEF LifeIInv
<1>3. ASSUME NEW t \in Mortal, LifeStep(t)
      PROVE  /\ Objects'
             /\ \A u \in Mortal \ {t} :
                   life'[u] = life[u] /\ (u \in created' <=> u \in created) /\ stack'[u] = stack[u]
  <2> USE LifeAssumption DEF LifeIInv, Objects, Alive, Becomes
  <2>1. CASE Allocate(t) \/ \E startType \in StartTypes : Create(t, startType)
    BY <2>1 DEF Allocate, Create
  <2>2. CASE Register(t) \/ Complete(t) \/ Undress(t)
    BY <2>2 DEF Register, Complete, Undress
  <2>3. CASE Destruct(t) \/ Delete(t)
    BY <2>3 DEF Destruct, Delete
  <2> QED BY <1>3, <2>1, <2>2, <2>3 DEF LifeStep
<1>4. ASSUME UNCHANGED vars
      PROVE  \A u \in Mortal :
                state'[u] = state[u] /\ (StandsStill(u) => StandsStill(u)')
  BY <1>4 DEF vars, StandsStill, InJoin
<1>5. ASSUME NEW t \in Mortal, LifeStep(t), UNCHANGED vars, Course(t)' PROVE LifeIInv'
  <2>1. \A u \in Mortal : ~Alive(u) => StandsStill(u)' /\ state'[u] = state[u]
    BY <1>4, <1>5 DEF LifeIInv, Course
  <2> QED BY <1>1, <1>3, <1>5, <2>1, OthersKeepCourse
<1> USE LifeAssumption DEF LifeIInv, Objects, Becomes, Course, Alive
<1>6. ASSUME NEW t \in Mortal, Allocate(t) PROVE LifeIInv'
  <2>1. Course(t)'
    BY <1>4, <1>6, CutIsSomething DEF Allocate
  <2> QED BY <1>5, <1>6, <2>1 DEF Allocate, LifeStep
<1>7. ASSUME NEW t \in Mortal, Register(t) \/ Complete(t) PROVE LifeIInv'
  <2>1. Course(t)'
    BY <1>4, <1>7 DEF Register, Complete
  <2> QED BY <1>5, <1>7, <2>1 DEF Register, Complete, LifeStep
<1>8. ASSUME NEW t \in Mortal, Undress(t) PROVE LifeIInv'
  <2>1. Course(t)'
    BY <1>4, <1>8 DEF Undress, StandsStill, Tidy, LifeHabits, Courteous
  <2> QED BY <1>5, <1>8, <2>1 DEF Undress, LifeStep
<1>9. ASSUME NEW t \in Mortal, Delete(t) PROVE LifeIInv'
  <2>1. Course(t)'
    BY <1>4, <1>9 DEF Delete
  <2> QED BY <1>5, <1>9, <2>1 DEF Delete, LifeStep
<1>10. ASSUME NEW t \in Mortal, NEW startType \in StartTypes, Create(t, startType)
       PROVE  LifeIInv'
  <2>0. state' = [state EXCEPT ![t] = "suspended"]
    BY <1>10, NoneStartsAtOnce DEF Create
  <2>1. \A u \in Mortal : ~Alive(u) => StandsStill(u)'
    BY <1>10, <2>0, ZenonT(30) DEF Create, StandsStill, InJoin, IInv, TypeOK
  <2>2. \A u \in Mortal \ {t} : state'[u] = state[u]
    BY <1>10 DEF Create, IInv, TypeOK
  <2>3. Course(t)'
    BY <1>10, <2>1, NoneStartsAtOnce DEF Create
  <2> QED BY <1>1, <1>3, <1>10, <2>1, <2>2, <2>3, OthersKeepCourse, ZenonT(30) DEF LifeStep
<1>11. ASSUME NEW t \in Mortal, Destruct(t) PROVE LifeIInv'
  <2>1. CASE state[t] \in Finished /\ UNCHANGED vars
    <3>1. Course(t)'
      BY <1>4, <1>11, <2>1 DEF Destruct
    <3> QED BY <1>5, <1>11, <2>1, <3>1 DEF Destruct, LifeStep
  <2>2. CASE state[t] \notin Finished /\ End(t, "terminated")
    <3>1. t \in Threads /\ \A u \in Mortal : ~Alive(u) => StandsStill(u)
      OBVIOUS
    <3>2. ASSUME NEW u \in Mortal, ~Alive(u)
          PROVE  StandsStill(u)' /\ state'[u] = IF u = t THEN "terminated" ELSE state[u]
      BY <2>2, <3>1, <3>2, EndLeavesAlone DEF Finished
    <3>3. Course(t)'
      BY <1>11, <3>2 DEF Destruct, Finished
    <3> QED BY <1>1, <1>3, <1>11, <3>2, <3>3, OthersKeepCourse, ZenonT(30) DEF LifeStep
  <2> QED BY <1>11, <2>1, <2>2 DEF Destruct
<1>12. CASE UNCHANGED allVars
  BY <1>1, <1>4, <1>12 DEF allVars, vars
<1> QED BY <1>2, <1>6, <1>7, <1>8, <1>9, <1>10, <1>11, <1>12 DEF LifeNext, LifeStep

(* Threads that come and go look like threads that are reset and terminated:*)
(* what is said of join() above holds of them, too.                         *)
THEOREM LifeImplementsThread == ASSUME Tidy PROVE LifeSpec => ImplementsThread
<1>1. LifeInit => Init BY DEF LifeInit
<1> QED BY <1>1, InitLifeIInv, NextLifeIInv, LifeStepIsStep, PTL
        DEF LifeSpec, Spec, ImplementsThread

(* A thread the kernel knows has the memory of its stack.                   *)
THEOREM StacksAreHeld == ASSUME Tidy PROVE LifeSpec => []StackHeld
<1>1. LifeIInv => StackHeld
  BY DEF LifeIInv, Course, StackHeld
<1> QED BY <1>1, InitLifeIInv, NextLifeIInv, PTL DEF LifeSpec

-----------------------------------------------------------------------------
(***************************************************************************)
(* The pool of two stacks.  The first one constructed is at the beginning  *)
(* of the pool, the second one after it and thus at the end; whichever is  *)
(* constructed anew finds its old place, or the whole pool.  Three stacks  *)
(* of different size can leave the pool in pieces that are too small.      *)
(***************************************************************************)
\* The sum over two threads, as the fold computes it.
LEMMA SumOfTwo ==
    ASSUME NEW a, NEW b, a # b, Mortal = {a, b}
    PROVE  MapThenSumSet(LAMBDA t : StackSize[t] + Header, Mortal)
             = (StackSize[a] + Header) + (StackSize[b] + Header)
<1> DEFINE f(t) == StackSize[t] + Header
           pick(s) == CHOOSE x \in s : TRUE
           Sums(g) == g = [s \in SUBSET Mortal |->
                              IF s = {} THEN 0 ELSE LET x == pick(s) IN f(x) + g[s \ {x}]]
           sum == [s \in SUBSET Mortal |->
                      (IF a \in s THEN f(a) ELSE 0) + (IF b \in s THEN f(b) ELSE 0)]
           iter == CHOOSE g : Sums(g)
<1>1. \A t \in Mortal : f(t) \in Int
  BY LifeAssumption DEF Header
<1> HIDE DEF f
<1>2. \A s \in SUBSET Mortal : s # {} => pick(s) \in s
  OBVIOUS
<1> HIDE DEF pick
<1>3. Sums(sum)
  <2>1. ASSUME NEW s \in SUBSET Mortal, s # {}
        PROVE  sum[s] = f(pick(s)) + sum[s \ {pick(s)}]
    BY <1>1, <1>2, <2>1
  <2>2. sum[{}] = 0
    OBVIOUS
  <2>3. sum = [s \in SUBSET Mortal |-> sum[s]]
    OBVIOUS
  <2> HIDE DEF sum
  <2>4. sum = [s \in SUBSET Mortal |->
                IF s = {} THEN 0 ELSE LET x == pick(s) IN f(x) + sum[s \ {x}]]
    BY <2>1, <2>2, <2>3
  <2> QED BY <2>4
<1>4. Sums(iter)
  BY <1>3
<1> HIDE DEF iter
<1>5. iter[Mortal] = f(a) + f(b)
  <2>1. /\ iter[{}] = 0
        /\ \A s \in SUBSET Mortal : s # {} => iter[s] = f(pick(s)) + iter[s \ {pick(s)}]
    BY <1>4
  <2>2. ASSUME NEW t \in Mortal PROVE iter[{t}] = f(t)
    <3>1. pick({t}) = t /\ {t} \ {t} = {}
      BY <1>2
    <3> QED BY <1>1, <2>1, <3>1
  <2>3. PICK p \in Mortal, q \in Mortal :
              p # q /\ iter[Mortal] = f(p) + iter[{q}] /\ Mortal = {p, q}
    <3>1. CASE pick(Mortal) = a
      <4>1. Mortal \ {a} = {b}
        OBVIOUS
      <4> QED BY <2>1, <3>1, <4>1
    <3>2. CASE pick(Mortal) = b
      <4>1. Mortal \ {b} = {a}
        OBVIOUS
      <4> QED BY <2>1, <3>2, <4>1
    <3> QED BY <1>2, <3>1, <3>2
  <2>4. (p = a /\ q = b) \/ (p = b /\ q = a)
    BY <2>3
  <2>5. f(a) + f(b) = f(b) + f(a)
    BY <1>1
  <2> QED BY <2>2, <2>3, <2>4, <2>5
<1> QED BY <1>5 DEF MapThenSumSet, MapThenFoldSet, f, pick, iter

\* A stack of whole words takes its size and the header.
LEMMA NeedIs ==
    ASSUME NEW t \in Mortal
    PROVE  Need(t) = StackSize[t] + Header /\ Need(t) \in Nat \ {0} /\ Need(t) >= MinBlock
<1> DEFINE S == StackSize[t]
           k == S \div Word
           q == (S + Word - 1) \div Word
           R == q * Word
<1>1. Word \in Nat \ {0} /\ S \in Nat /\ S % Word = 0 /\ Need(t) >= MinBlock /\ MinBlock \in Nat
  BY LifeAssumption
<1>2. k \in Nat /\ S = k * Word
  BY <1>1
<1>3. q \in Nat /\ R <= S + Word - 1 /\ S + Word - 1 < R + Word
  BY <1>1
<1>4. R \in Nat /\ (k + 1) * Word = S + Word
  BY <1>1, <1>2, <1>3
<1>5. q < k + 1
  <2> SUFFICES ASSUME q >= k + 1 PROVE FALSE
    BY <1>2, <1>3
  <2>1. R >= (k + 1) * Word
    BY <1>1, <1>2, <1>3
  <2> HIDE DEF R, S, k, q
  <2> QED BY <1>1, <1>3, <1>4, <2>1
<1>6. R <= S
  BY <1>1, <1>2, <1>3, <1>5
<1> HIDE DEF R, S, k, q
<1>7. R = S
  BY <1>1, <1>3, <1>4, <1>6
<1>8. Need(t) = Header + R
  BY DEF Need, R, q, S
<1> QED BY <1>1, <1>7, <1>8 DEF Header, S

\* The room of both is what they need.
LEMMA EndOfTwo ==
    ASSUME NEW a, NEW b, a # b, Mortal = {a, b}
    PROVE  PoolEnd = Need(a) + Need(b)
<1>1. PoolSize = Header + ((StackSize[a] + Header) + (StackSize[b] + Header))
  BY SumOfTwo DEF PoolSize
<1> QED BY <1>1, NeedIs, LifeAssumption DEF PoolEnd, Header

\* The first and the last place of the pool, as long as t needs.
Left(t) == [from |-> 0, to |-> Need(t)]
Right(t) == [from |-> PoolEnd - Need(t), to |-> PoolEnd]

\* With one of two stacks taken there is one hole, which the other one fills.
LEMMA OnePlace ==
    ASSUME NEW a, NEW b, a # b, Mortal = {a, b}, stack[a] = Nothing,
           NEW here,
           \/ stack[b] = Nothing /\ here = Left(a)
           \/ stack[b] = Left(b) /\ here = Right(a)
           \/ stack[b] = Right(b) /\ here = Left(a)
    PROVE  /\ \E h \in Holes : Fits(a, h)
           /\ \A h \in Holes : Cut(a, h) = here
<1>1. /\ PoolEnd = Need(a) + Need(b)
      /\ Need(a) \in Nat \ {0} /\ Need(b) \in Nat \ {0} /\ Need(b) >= MinBlock /\ MinBlock \in Nat
  BY EndOfTwo, NeedIs, LifeAssumption
<1>2. CASE stack[b] = Nothing /\ here = Left(a)
  <2> DEFINE hole == [from |-> 0, to |-> PoolEnd]
  <2>1. Taken = {}
    BY <1>2 DEF Taken
  <2>2. Holes = {hole}
    BY <1>1, <2>1 DEF Holes
  <2>3. Fits(a, hole) /\ Cut(a, hole) = here
    BY <1>1, <1>2 DEF Fits, Cut, Left
  <2> QED BY <2>2, <2>3
<1>3. CASE stack[b] = Left(b) /\ here = Right(a)
  <2> DEFINE hole == [from |-> Need(b), to |-> PoolEnd]
  <2>1. Taken = {Left(b)}
    BY <1>1, <1>3 DEF Taken, Left, Nothing
  <2>2. Holes = {hole}
    BY <1>1, <2>1 DEF Holes, Left
  <2>3. Fits(a, hole) /\ Cut(a, hole) = here
    BY <1>1, <1>3 DEF Fits, Cut, Right
  <2> QED BY <2>2, <2>3
<1>4. CASE stack[b] = Right(b) /\ here = Left(a)
  <2> DEFINE hole == [from |-> 0, to |-> Need(a)]
  <2>1. Taken = {Right(b)}
    BY <1>1, <1>4 DEF Taken, Right, Nothing
  <2>2. Holes = {hole}
    BY <1>1, <2>1 DEF Holes, Right
  <2>3. Fits(a, hole) /\ Cut(a, hole) = here
    BY <1>1, <1>4 DEF Fits, Cut, Left
  <2> QED BY <2>2, <2>3
<1> QED BY <1>2, <1>3, <1>4

\* Every stack is at an end of the pool, and no two at the same one.
AtEnds ==
    /\ life = [t \in Threads |-> life[t]] /\ stack = [t \in Mortal |-> stack[t]]
    /\ \A t \in Mortal :
        /\ life[t] = "none" => stack[t] = Nothing
        /\ stack[t] \in {Nothing, Left(t), Right(t)}
    /\ \A t, u \in Mortal :
        /\ t # u /\ stack[t] = Left(t) => stack[u] # Left(u)
        /\ t # u /\ stack[t] = Right(t) => stack[u] # Right(u)

\* No stack is at no end, or at both.
LEMMA NothingIsElsewhere ==
    ASSUME NEW a, NEW b, a # b, Mortal = {a, b}, NEW t \in Mortal
    PROVE  Left(t) # Nothing /\ Right(t) # Nothing /\ Left(t) # Right(t)
  BY EndOfTwo, NeedIs DEF Left, Right, Nothing

LEMMA AllocateAtEnds ==
    ASSUME NEW a, NEW b, a # b, Mortal = {a, b}, AtEnds, Allocate(a)
    PROVE  AtEnds'
<1>1. a \in Threads /\ b \in Threads /\ stack[a] = Nothing /\ life[a] = "none"
  BY LifeAssumption DEF AtEnds, Allocate, Becomes
<1>2. /\ life' = [life EXCEPT ![a] = "allocated"] /\ life'[a] = "allocated"
      /\ life'[b] = life[b] /\ life' = [t \in Threads |-> life'[t]]
  BY <1>1 DEF AtEnds, Allocate, Becomes
<1>3. PICK h \in Holes : Fits(a, h) /\ stack' = [stack EXCEPT ![a] = Cut(a, h)]
  BY DEF Allocate
<1>4. stack'[a] = Cut(a, h) /\ stack'[b] = stack[b] /\ stack' = [t \in Mortal |-> stack'[t]]
  BY <1>3 DEF AtEnds
<1>5. \/ stack[b] = Nothing /\ stack'[a] = Left(a)
      \/ stack[b] = Left(b) /\ stack'[a] = Right(a)
      \/ stack[b] = Right(b) /\ stack'[a] = Left(a)
  BY <1>1, <1>3, <1>4, OnePlace DEF AtEnds
<1>6. Left(a) # Right(a) /\ Left(b) # Right(b) /\ Nothing \notin {Left(a), Right(a), Left(b), Right(b)}
  BY NothingIsElsewhere
<1> QED BY <1>2, <1>4, <1>5, <1>6 DEF AtEnds

LEMMA NextAtEnds ==
    ASSUME NEW a, NEW b, a # b, Mortal = {a, b}, AtEnds, [LifeNext]_allVars
    PROVE  AtEnds'
<1>1. ASSUME NEW t \in Mortal, Allocate(t) PROVE AtEnds'
  BY <1>1, AllocateAtEnds
<1>2. ASSUME NEW t \in Mortal,
             \/ \E startType \in StartTypes : Create(t, startType)
             \/ Register(t) \/ Complete(t) \/ Undress(t) \/ Destruct(t)
      PROVE  AtEnds'
  <2>1. /\ stack' = stack
        /\ \E to \in {"created", "registered", "alive", "undressed", "terminated"} :
              life' = [life EXCEPT ![t] = to]
    BY <1>2 DEF Create, Register, Complete, Undress, Destruct, Becomes
  <2>2. /\ life' = [u \in Threads |-> life'[u]]
        /\ \A u \in Mortal : life'[u] = "none" => life[u] = "none"
    BY <2>1, LifeAssumption DEF AtEnds
  <2> QED BY <2>1, <2>2 DEF AtEnds
<1>3. ASSUME NEW t \in Mortal, Delete(t) PROVE AtEnds'
  <2>1. life' = [life EXCEPT ![t] = "none"] /\ stack' = [stack EXCEPT ![t] = Nothing]
    BY <1>3 DEF Delete, Becomes
  <2>2. /\ life' = [u \in Threads |-> life'[u]] /\ stack' = [u \in Mortal |-> stack'[u]]
        /\ stack'[t] = Nothing
        /\ \A u \in Mortal \ {t} : life'[u] = life[u] /\ stack'[u] = stack[u]
    BY <2>1, LifeAssumption DEF AtEnds
  <2>3. \A u \in Mortal : Left(u) # Nothing /\ Right(u) # Nothing
    BY NothingIsElsewhere
  <2> QED BY <2>2, <2>3 DEF AtEnds
<1>4. CASE UNCHANGED lifeVars
  BY <1>4 DEF lifeVars, AtEnds
<1> QED BY <1>1, <1>2, <1>3, <1>4 DEF LifeNext, LifeStep, allVars, lifeVars

(* A pool of minimumPoolSize() has room for each of two threads whenever it  *)
(* is constructed, whatever was constructed and destroyed before, and for    *)
(* any sizes of stacks and smallest block.                                   *)
THEOREM TwoThreadsHaveRoom ==
    ASSUME NEW a, NEW b, a # b, Mortal = {a, b} PROVE LifeSpec => []RoomForAll
<1>1. LifeInit => AtEnds
  <2> SUFFICES ASSUME LifeInit PROVE AtEnds
    OBVIOUS
  <2>1. /\ life = [t \in Threads |-> life[t]] /\ stack = [t \in Mortal |-> stack[t]]
        /\ \A t \in Mortal : stack[t] = Nothing
    BY DEF LifeInit
  <2>2. \A t \in Mortal : Left(t) # Nothing /\ Right(t) # Nothing
    BY NothingIsElsewhere
  <2> QED BY <2>1, <2>2 DEF AtEnds
<1>2. AtEnds => RoomForAll
  <2> SUFFICES ASSUME AtEnds, NEW t \in Mortal, stack[t] = Nothing
               PROVE  \E h \in Holes : Fits(t, h)
    BY DEF RoomForAll
  <2>1. PICK u : t # u /\ Mortal = {t, u}
    OBVIOUS
  <2>2. stack[u] \in {Nothing, Left(u), Right(u)}
    BY <2>1 DEF AtEnds
  <2> QED BY <2>1, <2>2, OnePlace
<1>3. AtEnds /\ [LifeNext]_allVars => AtEnds'
  BY NextAtEnds
<1> QED BY <1>1, <1>2, <1>3, PTL DEF LifeSpec
=============================================================================
