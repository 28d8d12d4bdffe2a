------------------------- MODULE CountingSemaphore -------------------------
(***************************************************************************)
(* CountingSemaphore<Ceiling> (semaphore.hpp, semaphore.cpp).  A get, a    *)
(* put, a time-out, an abort are each one call of the kernel and atomic;   *)
(* release(n) is n puts one after the other, with other threads and        *)
(* interrupts between them, and gives up at the first one that fails.      *)
(* The kernel's put hands the instance to the first waiting thread, or     *)
(* counts it, or refuses it when the count is at the ceiling.              *)
(***************************************************************************)
EXTENDS Naturals, Sequences, SequencesExt

CONSTANTS
    Threads,    \* threads that acquire (and release)
    Isrs,       \* interrupt service routines and timers: they never wait
    Priority,   \* of each thread; smaller is higher
    Ceiling,    \* the template argument
    MaxRelease, \* bound: the largest count passed to release()
    MaxPuts     \* bound: instances put over the whole run

Contexts == Threads \cup Isrs

ASSUME SemaphoreAssumption ==
    /\ Ceiling \in Nat \ {0}
    /\ Priority \in [Threads -> Nat]
    /\ MaxRelease \in Nat
    /\ MaxPuts \in Nat

VARIABLES
    exists,     \* between the constructor and the destructor
    count,      \* tx_semaphore_count
    waiters,    \* the suspension list, its head first
    left,       \* what the while loop of a release() still has to put, 0 outside
    result,     \* the Error of the last acquire or release of a context
    initial,    \* initialCount (history variable)
    put, got,   \* instances put and acquired so far (history variables)
    asked, gave \* of a context's last release(): asked for, put (history variables)

vars == <<exists, count, waiters, left, result, initial, put, got, asked, gave>>
history == <<initial, put, asked, gave>>

Errors == {"none", "success", "noInstance", "waitAborted", "deleted", "ceilingExceeded"}

IsWaiting(t) == \E i \in 1..Len(waiters) : waiters[i] = t

TypeOK ==
    /\ exists \in BOOLEAN
    /\ count \in 0..Ceiling
    /\ waiters \in Seq(Threads)
    /\ left \in [Contexts -> 0..MaxRelease]
    /\ result \in [Contexts -> Errors]
    /\ initial \in 0..Ceiling
    /\ put \in Nat /\ got \in Nat
    /\ asked \in [Contexts -> 0..MaxRelease]
    /\ gave \in [Contexts -> 0..MaxRelease]

\* The constructor: assert(initialCount <= Ceiling).
Init ==
    /\ exists = TRUE
    /\ initial \in 0..Ceiling
    /\ count = initial
    /\ waiters = <<>>
    /\ left = [c \in Contexts |-> 0]
    /\ result = [c \in Contexts |-> "none"]
    /\ put = 0 /\ got = 0
    /\ asked = [c \in Contexts |-> 0]
    /\ gave = [c \in Contexts |-> 0]

\* Context c executes its own code.
Free(c) == exists /\ left[c] = 0 /\ ~IsWaiting(c)

Returns(c, error) == result' = [result EXCEPT ![c] = error]

-----------------------------------------------------------------------------
\* tx_semaphore_get with an instance there: every form of acquire.
AcquireAtOnce(c) ==
    /\ Free(c)
    /\ count > 0
    /\ count' = count - 1
    /\ got' = got + 1
    /\ Returns(c, "success")
    /\ UNCHANGED <<exists, waiters, left, history>>

\* tryAcquire(), and tryAcquireFor() a duration of no ticks.
TryAcquireFails(c) ==
    /\ Free(c)
    /\ count = 0
    /\ Returns(c, "noInstance")
    /\ UNCHANGED <<exists, count, waiters, left, got, history>>

\* acquire(), tryAcquireFor() and tryAcquireUntil() of a thread suspend it.
AcquireWaits(t) ==
    /\ Free(t)
    /\ count = 0
    /\ waiters' = Append(waiters, t)
    /\ Returns(t, "none")
    /\ UNCHANGED <<exists, count, left, got, history>>

\* A wait ends without an instance: it timed out, or abortWait() was called.
WaitEnds(t, error) ==
    /\ \E i \in 1..Len(waiters) : waiters[i] = t /\ waiters' = RemoveAt(waiters, i)
    /\ Returns(t, error)
    /\ UNCHANGED <<exists, count, left, got, history>>

-----------------------------------------------------------------------------
\* release(n) starts its loop; release(0) succeeds without a put.
Release(c, n) ==
    /\ Free(c)
    /\ left' = [left EXCEPT ![c] = n]
    /\ asked' = [asked EXCEPT ![c] = n]
    /\ gave' = [gave EXCEPT ![c] = 0]
    /\ Returns(c, IF n = 0 THEN "success" ELSE "none")
    /\ UNCHANGED <<exists, count, waiters, initial, put, got>>

\* The loop goes on after a put that succeeded, and ends with the last one.
Counted(c, answer) ==
    /\ left' = [left EXCEPT ![c] = @ - 1]
    /\ gave' = [gave EXCEPT ![c] = @ + 1]
    /\ put' = put + 1
    /\ result' = IF left[c] = 1 THEN [answer EXCEPT ![c] = "success"] ELSE answer
    /\ UNCHANGED <<exists, initial, asked>>

\* Fault: the instance that wakes a thread is counted as well.
PutTwice(c) ==
    /\ waiters # <<>>
    /\ waiters' = Tail(waiters)
    /\ count' = IF count < Ceiling THEN count + 1 ELSE count
    /\ got' = got + 1
    /\ Counted(c, [result EXCEPT ![Head(waiters)] = "success"])

PutToWaiter(c) ==
    /\ waiters # <<>>
    /\ waiters' = Tail(waiters)
    /\ got' = got + 1
    /\ Counted(c, [result EXCEPT ![Head(waiters)] = "success"])
    /\ UNCHANGED count

\* Faults: tx_semaphore_put, which knows no ceiling, and a put that wakes nobody.
PutWithoutCeiling(c) ==
    /\ waiters = <<>>
    /\ count' = count + 1
    /\ Counted(c, result)
    /\ UNCHANGED <<waiters, got>>

PutWakesNobody(c) ==
    /\ count < Ceiling
    /\ count' = count + 1
    /\ Counted(c, result)
    /\ UNCHANGED <<waiters, got>>

PutToCount(c) ==
    /\ waiters = <<>>
    /\ count < Ceiling
    /\ count' = count + 1
    /\ Counted(c, result)
    /\ UNCHANGED <<waiters, got>>

\* Faults: the loop ends with success all the same, or tries again.
PutRefusedUnsaid(c) ==
    /\ waiters = <<>>
    /\ count = Ceiling
    /\ left' = [left EXCEPT ![c] = 0]
    /\ Returns(c, "success")
    /\ UNCHANGED <<exists, count, waiters, got, history>>

PutRefused(c) ==
    /\ waiters = <<>>
    /\ count = Ceiling
    /\ left' = [left EXCEPT ![c] = 0]
    /\ Returns(c, "ceilingExceeded")
    /\ UNCHANGED <<exists, count, waiters, got, history>>

\* One turn of the loop of release().
ReleaseStep(c) ==
    /\ left[c] > 0
    /\ put < MaxPuts
    /\ PutToWaiter(c) \/ PutToCount(c) \/ PutRefused(c)

-----------------------------------------------------------------------------
\* prioritise(): the first of the highest-priority waiters goes to the front.
Prioritise ==
    /\ exists
    /\ \E i \in 1..Len(waiters) :
          /\ \A k \in 1..Len(waiters) :
                \/ Priority[waiters[i]] < Priority[waiters[k]]
                \/ Priority[waiters[i]] = Priority[waiters[k]] /\ i <= k
          /\ waiters' = <<waiters[i]>> \o RemoveAt(waiters, i)
    /\ UNCHANGED <<exists, count, left, result, got, history>>

\* The destructor: tx_semaphore_delete resumes every waiting thread.
Destroy ==
    /\ exists
    /\ \A c \in Contexts : left[c] = 0
    /\ exists' = FALSE
    /\ waiters' = <<>>
    /\ result' = [c \in Contexts |-> IF IsWaiting(c) THEN "deleted" ELSE result[c]]
    /\ UNCHANGED <<count, left, got, history>>

Next ==
    \/ \E c \in Contexts :
          \/ AcquireAtOnce(c) \/ TryAcquireFails(c)
          \/ \E n \in 0..MaxRelease : Release(c, n)
          \/ ReleaseStep(c)
    \/ \E t \in Threads :
          AcquireWaits(t) \/ WaitEnds(t, "noInstance") \/ WaitEnds(t, "waitAborted")
    \/ Prioritise
    \/ Destroy

Spec == Init /\ [][Next]_vars

-----------------------------------------------------------------------------
(***************************************************************************)
(* Properties                                                              *)
(***************************************************************************)

(***************************************************************************)
(* No instance is lost or made up: what was there at first and what was    *)
(* put is either counted or was acquired, however puts, time-outs, aborts  *)
(* and the destructor interleave.                                          *)
(***************************************************************************)
Conserved == initial + put = got + count

(***************************************************************************)
(* No thread waits while an instance is there.                             *)
(***************************************************************************)
NoIdleInstance == waiters # <<>> => count = 0

(***************************************************************************)
(* release(n) tells the truth (semaphore.hpp:47-51): it returns success    *)
(* when, and only when, n instances were put, and ceilingExceeded when the *)
(* last of them were not, the earlier ones having been put all the same.   *)
(***************************************************************************)
ReleaseTold ==
    [][\A c \in Contexts : left[c] > 0 /\ left'[c] = 0 =>
          /\ result'[c] = "success" <=> gave'[c] = asked[c]
          /\ result'[c] = "ceilingExceeded" <=> gave'[c] < asked[c]]_vars
=============================================================================
