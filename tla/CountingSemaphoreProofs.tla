---------------------- MODULE CountingSemaphoreProofs ----------------------
(***************************************************************************)
(* The accounts of a CountingSemaphore for every ceiling and any number of *)
(* contexts: nothing is lost, nothing lies idle, the ceiling is kept, and  *)
(* release() tells what it did.                                            *)
(***************************************************************************)
EXTENDS CountingSemaphore, SequenceTheorems, TLAPS

Counts ==
    /\ count \in 0..Ceiling
    /\ initial \in Nat /\ put \in Nat /\ got \in Nat

IInv == Counts /\ Conserved /\ NoIdleInstance

LEMMA InitIInv == Init => IInv
  BY SemaphoreAssumption DEF Init, IInv, Counts, Conserved, NoIdleInstance

LEMMA PutIInv == ASSUME IInv, NEW c \in Contexts, ReleaseStep(c) PROVE IInv'
<1> USE SemaphoreAssumption DEF IInv, Counts, Conserved, NoIdleInstance
<1>1. CASE PutToWaiter(c)
  BY <1>1 DEF PutToWaiter, Counted
<1>2. CASE PutToCount(c)
  BY <1>2 DEF PutToCount, Counted
<1>3. CASE PutRefused(c)
  BY <1>3 DEF PutRefused, history
<1> QED BY <1>1, <1>2, <1>3 DEF ReleaseStep

LEMMA NextIInv == ASSUME IInv, [Next]_vars PROVE IInv'
<1> USE SemaphoreAssumption DEF IInv, Counts, Conserved, NoIdleInstance
<1>1. ASSUME NEW c \in Contexts, AcquireAtOnce(c) PROVE IInv'
  BY <1>1 DEF AcquireAtOnce, history
<1>2. ASSUME NEW c \in Contexts, TryAcquireFails(c) PROVE IInv'
  BY <1>2 DEF TryAcquireFails, history
<1>3. ASSUME NEW c \in Contexts, NEW n \in 0..MaxRelease, Release(c, n) PROVE IInv'
  BY <1>3 DEF Release
<1>4. ASSUME NEW c \in Contexts, ReleaseStep(c) PROVE IInv'
  BY <1>4, PutIInv
<1>5. ASSUME NEW t \in Threads, AcquireWaits(t) PROVE IInv'
  BY <1>5 DEF AcquireWaits, history
<1>6. ASSUME NEW t \in Threads, NEW error, WaitEnds(t, error) PROVE IInv'
  <2>1. waiters # <<>>
    BY <1>6 DEF WaitEnds, IsWaiting
  <2> QED BY <1>6, <2>1 DEF WaitEnds, history
<1>7. CASE Prioritise
  <2>1. waiters # <<>>
    BY <1>7 DEF Prioritise
  <2> QED BY <1>7, <2>1 DEF Prioritise, history
<1>8. CASE Destroy
  BY <1>8 DEF Destroy, history
<1>9. CASE UNCHANGED vars
  BY <1>9 DEF vars
<1> QED BY <1>1, <1>2, <1>3, <1>4, <1>5, <1>6, <1>7, <1>8, <1>9 DEF Next

(* Puts, acquires, time-outs, aborts and the destructor keep the account:   *)
(* initial count plus puts is count plus acquires.                          *)
THEOREM InstancesConserved == Spec => []Conserved
<1>1. IInv => Conserved BY DEF IInv
<1> QED BY <1>1, InitIInv, NextIInv, PTL DEF Spec

(* No thread is suspended on a semaphore that has an instance.              *)
THEOREM NothingIdle == Spec => []NoIdleInstance
<1>1. IInv => NoIdleInstance BY DEF IInv
<1> QED BY <1>1, InitIInv, NextIInv, PTL DEF Spec

-----------------------------------------------------------------------------
\* A release() under way has put what it was asked for but for what is left.
Progress ==
    /\ left \in [Contexts -> 0..MaxRelease]
    /\ asked \in [Contexts -> 0..MaxRelease]
    /\ gave \in [Contexts -> 0..MaxRelease]
    /\ result \in [Contexts -> Errors]
    /\ \A c \in Contexts : left[c] > 0 => asked[c] = gave[c] + left[c]

LEMMA CountedProgress ==
    ASSUME Progress, NEW c \in Contexts, left[c] > 0,
           NEW answer \in [Contexts -> Errors], Counted(c, answer)
    PROVE  Progress'
<1>1. /\ left[c] \in 1..MaxRelease /\ gave[c] \in 0..MaxRelease
      /\ asked[c] = gave[c] + left[c] /\ asked[c] \in 0..MaxRelease
  BY SemaphoreAssumption DEF Progress
<1>2. left[c] - 1 \in 0..MaxRelease /\ gave[c] + 1 \in 0..MaxRelease
      /\ asked[c] = (gave[c] + 1) + (left[c] - 1)
  BY <1>1, SemaphoreAssumption
<1>3. left' = [left EXCEPT ![c] = left[c] - 1] /\ gave' = [gave EXCEPT ![c] = gave[c] + 1]
      /\ asked' = asked
  BY DEF Counted
<1>4. result' \in [Contexts -> Errors]
  BY DEF Counted, Errors
<1> QED BY <1>2, <1>3, <1>4 DEF Progress

LEMMA StepProgress == ASSUME Progress, NEW c \in Contexts, ReleaseStep(c) PROVE Progress'
<1>1. [result EXCEPT ![Head(waiters)] = "success"] \in [Contexts -> Errors]
      /\ result \in [Contexts -> Errors]
  BY DEF Progress, Errors
<1>2. CASE PutToWaiter(c) \/ PutToCount(c)
  BY <1>1, <1>2, CountedProgress DEF ReleaseStep, PutToWaiter, PutToCount
<1>3. CASE PutRefused(c)
  BY <1>3, SemaphoreAssumption DEF PutRefused, Returns, Progress, Errors, history
<1> QED BY <1>2, <1>3 DEF ReleaseStep

\* Calls other than release() leave its loop alone.
LEMMA OtherProgress ==
    ASSUME Progress, UNCHANGED <<left, asked, gave>>, result' \in [Contexts -> Errors]
    PROVE  Progress'
  BY DEF Progress

LEMMA NextProgress == ASSUME Progress, [Next]_vars PROVE Progress'
<1>1. ASSUME NEW c \in Contexts, AcquireAtOnce(c) \/ TryAcquireFails(c) \/ AcquireWaits(c)
      PROVE  Progress'
  BY <1>1, OtherProgress
  DEF AcquireAtOnce, TryAcquireFails, AcquireWaits, Returns, Progress, Errors, history
<1>2. ASSUME NEW c \in Contexts, NEW n \in 0..MaxRelease, Release(c, n) PROVE Progress'
  BY <1>2, SemaphoreAssumption DEF Release, Returns, Progress, Errors
<1>3. ASSUME NEW c \in Contexts, ReleaseStep(c) PROVE Progress'
  BY <1>3, StepProgress
<1>4. ASSUME NEW t \in Threads, WaitEnds(t, "noInstance") \/ WaitEnds(t, "waitAborted")
      PROVE  Progress'
  BY <1>4, OtherProgress DEF WaitEnds, Returns, Progress, Errors, history
<1>5. CASE Prioritise \/ Destroy \/ UNCHANGED vars
  BY <1>5, OtherProgress DEF Prioritise, Destroy, vars, Progress, Errors, history
<1>6. Threads \subseteq Contexts
  BY DEF Contexts
<1> QED BY <1>1, <1>2, <1>3, <1>4, <1>5, <1>6, Zenon DEF Next

LEMMA StepTells ==
    ASSUME Progress, [Next]_vars, NEW c \in Contexts, left[c] > 0, left'[c] = 0
    PROVE  /\ result'[c] = "success" <=> gave'[c] = asked[c]
           /\ result'[c] = "ceilingExceeded" <=> gave'[c] < asked[c]
<1>1. ASSUME NEW d \in Contexts, PutToWaiter(d) \/ PutToCount(d) PROVE c = d
  BY <1>1 DEF PutToWaiter, PutToCount, Counted, Progress
<1>2. ASSUME NEW d \in Contexts, PutRefused(d) PROVE c = d
  BY <1>2 DEF PutRefused, Progress
<1>3. ReleaseStep(c)
  <2>1. ASSUME NEW d \in Contexts, NEW n \in 0..MaxRelease, Release(d, n) PROVE FALSE
    BY <2>1 DEF Release, Free, Progress
  <2>2. ~ UNCHANGED left
    OBVIOUS
  <2>3. \E d \in Contexts : ReleaseStep(d)
    BY <2>1, <2>2 DEF Next, AcquireAtOnce, TryAcquireFails, AcquireWaits, WaitEnds,
                     Prioritise, Destroy, vars
  <2> QED BY <1>1, <1>2, <2>3 DEF ReleaseStep
<1>4. /\ left[c] \in 1..MaxRelease /\ gave[c] \in 0..MaxRelease
      /\ asked[c] = gave[c] + left[c]
  BY SemaphoreAssumption DEF Progress
<1>5. ASSUME NEW answer \in [Contexts -> Errors], Counted(c, answer)
      PROVE  result'[c] = "success" /\ gave'[c] = asked[c]
  <2>1. left[c] = 1
    BY <1>4, <1>5 DEF Counted, Progress
  <2> QED BY <1>4, <1>5, <2>1 DEF Counted, Progress
<1>6. CASE PutToWaiter(c) \/ PutToCount(c)
  <2>1. [result EXCEPT ![Head(waiters)] = "success"] \in [Contexts -> Errors]
        /\ result \in [Contexts -> Errors]
    BY DEF Progress, Errors
  <2>2. result'[c] = "success" /\ gave'[c] = asked[c]
    BY <1>5, <1>6, <2>1 DEF PutToWaiter, PutToCount
  <2> QED BY <1>4, <2>2
<1>7. CASE PutRefused(c)
  <2>1. result'[c] = "ceilingExceeded" /\ gave'[c] = gave[c]
    BY <1>7 DEF PutRefused, Returns, Progress, history
  <2> QED BY <1>4, <2>1
<1> QED BY <1>3, <1>6, <1>7 DEF ReleaseStep

(* release(n) returns success exactly when it put n instances.              *)
THEOREM ReleaseTellsTruth == Spec => ReleaseTold
<1>1. Init => Progress
  BY SemaphoreAssumption DEF Init, Progress, Errors
<1>2. Progress /\ [Next]_vars => Progress'
  BY NextProgress
<1>3. Progress /\ [Next]_vars =>
        [\A c \in Contexts : left[c] > 0 /\ left'[c] = 0 =>
            /\ result'[c] = "success" <=> gave'[c] = asked[c]
            /\ result'[c] = "ceilingExceeded" <=> gave'[c] < asked[c]]_vars
  BY StepTells
<1> QED BY <1>1, <1>2, <1>3, PTL DEF Spec, ReleaseTold

-----------------------------------------------------------------------------
\* What the accounts and the progress of release() do not say of the types.
Typed ==
    /\ exists \in BOOLEAN
    /\ waiters \in Seq(Threads)
    /\ initial \in 0..Ceiling

LEMMA RemoveAtTyped ==
    ASSUME NEW S, NEW s \in Seq(S), NEW i \in 1..Len(s)
    PROVE  RemoveAt(s, i) \in Seq(S)
<1>1. SubSeq(s, 1, i - 1) \in Seq(S) /\ SubSeq(s, i + 1, Len(s)) \in Seq(S)
  BY SubSeqProperties
<1> QED BY <1>1, ConcatProperties DEF RemoveAt

LEMMA NextTyped == ASSUME Typed, [Next]_vars PROVE Typed'
<1>1. ASSUME NEW c \in Contexts, AcquireAtOnce(c) \/ TryAcquireFails(c) PROVE Typed'
  BY <1>1 DEF AcquireAtOnce, TryAcquireFails, Typed, history
<1>2. ASSUME NEW c \in Contexts, NEW n \in 0..MaxRelease, Release(c, n) PROVE Typed'
  BY <1>2 DEF Release, Typed
<1>3. ASSUME NEW c \in Contexts, ReleaseStep(c) PROVE Typed'
  <2>1. waiters' \in Seq(Threads)
    BY <1>3, SMTT(30) DEF ReleaseStep, PutToWaiter, PutToCount, PutRefused, Typed
  <2>2. UNCHANGED <<exists, initial>>
    BY <1>3 DEF ReleaseStep, PutToWaiter, PutToCount, PutRefused, Counted, history
  <2> QED BY <2>1, <2>2 DEF Typed
<1>4. ASSUME NEW t \in Threads, AcquireWaits(t) PROVE Typed'
  BY <1>4, AppendProperties DEF AcquireWaits, Typed, history
<1>5. ASSUME NEW t \in Threads, NEW error, WaitEnds(t, error) PROVE Typed'
  <2>1. PICK i \in 1..Len(waiters) : waiters' = RemoveAt(waiters, i)
    BY <1>5 DEF WaitEnds
  <2>2. waiters' \in Seq(Threads)
    BY <2>1, RemoveAtTyped DEF Typed
  <2> QED BY <1>5, <2>2 DEF WaitEnds, Typed, history
<1>6. CASE Prioritise
  <2>1. PICK i \in 1..Len(waiters) : waiters' = <<waiters[i]>> \o RemoveAt(waiters, i)
    BY <1>6 DEF Prioritise
  <2>2. RemoveAt(waiters, i) \in Seq(Threads) /\ <<waiters[i]>> \in Seq(Threads)
    BY RemoveAtTyped DEF Typed
  <2>3. <<waiters[i]>> \o RemoveAt(waiters, i) \in Seq(Threads)
    BY <2>2, ConcatProperties
  <2> QED BY <1>6, <2>1, <2>3 DEF Prioritise, Typed, history
<1>7. CASE Destroy
  <2>1. waiters' = <<>> /\ exists' = FALSE /\ UNCHANGED initial
    BY <1>7 DEF Destroy, history
  <2>2. <<>> \in Seq(Threads)
    OBVIOUS
  <2> QED BY <2>1, <2>2 DEF Typed
<1>8. CASE UNCHANGED vars
  BY <1>8 DEF vars, Typed
<1> QED BY <1>1, <1>2, <1>3, <1>4, <1>5, <1>6, <1>7, <1>8 DEF Next

(* The state of a semaphore is always well typed: the count stays within    *)
(* the template's Ceiling and the loop of release() within its argument.    *)
THEOREM TypeCorrect == Spec => []TypeOK
<1>1. Init => IInv /\ Progress /\ Typed
  BY InitIInv, SemaphoreAssumption DEF Init, Progress, Typed, Errors
<1>2. IInv /\ Progress /\ Typed /\ [Next]_vars => (IInv /\ Progress /\ Typed)'
  BY NextIInv, NextProgress, NextTyped
<1>3. IInv /\ Progress /\ Typed => TypeOK
  BY DEF IInv, Counts, Progress, Typed, TypeOK
<1> QED BY <1>1, <1>2, <1>3, PTL DEF Spec
=============================================================================
