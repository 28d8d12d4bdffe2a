------------------------------- MODULE Thread -------------------------------
(***************************************************************************)
(* The life of Thread objects (thread.hpp) and join() on them.  A thread   *)
(* that joins another puts a BinarySemaphore on its own stack, publishes   *)
(* its address in the other's m_exitSignalPtr, waits for it, and takes the *)
(* address back; the entry/exit callback of the other, which the kernel    *)
(* runs when that thread completes or is terminated, releases it.          *)
(*                                                                         *)
(* The steps of join() are actions of their own, as any thread may run     *)
(* between them; the critical section of thread.hpp:320-329 is one action, *)
(* by CriticalSectionProofs!SectionIsProtected (JoinSection is the model   *)
(* of what happens where that theorem's assumption fails).  A call that    *)
(* the kernel refuses (resume() of a thread that is not suspended, say)    *)
(* changes nothing and is a stuttering step.                               *)
(***************************************************************************)
EXTENDS Naturals

CONSTANTS
    Threads,    \* the Thread objects
    Null,       \* nullptr
    SerialJoin, \* TRUE: the application lets one thread at a time join a thread;
                \* FALSE: only the assertion of join(), compiled in, stands between
    KillJoiner, \* TRUE: the application also terminates threads inside join()
    Calls       \* the calls the application makes besides join()

ASSUME ThreadsAssumption ==
    /\ Null \notin Threads
    /\ SerialJoin \in BOOLEAN
    /\ KillJoiner \in BOOLEAN

VARIABLES
    state,      \* tx_thread_state, as ThreadState names it
    delayed,    \* tx_thread_delayed_suspend: suspend when the wait is over
    exitSignal, \* m_exitSignalPtr: the thread whose semaphore it points to
    pc,         \* where a thread is: its own code, a step of join() or restart()
    target,     \* the thread it joins or restarts there
    count,      \* the count of the semaphore of its join()
    error,      \* what the acquire() of its join() returned
    sawExit     \* its target finished since it published (history variable)

vars == <<state, delayed, exitSignal, pc, target, count, error, sawExit>>

ThreadState == {"ready", "completed", "terminated", "suspended", "sleep", "SemaphoreSusp"}
Finished == {"completed", "terminated"}

TypeOK ==
    /\ state \in [Threads -> ThreadState]
    /\ delayed \in [Threads -> BOOLEAN]
    /\ exitSignal \in [Threads -> Threads \cup {Null}]
    /\ pc \in [Threads -> {"run", "enter", "acquire", "clear", "resume"}]
    /\ target \in [Threads -> Threads \cup {Null}]
    /\ count \in [Threads -> 0..1]
    /\ error \in [Threads -> {"none", "success", "waitAborted"}]
    /\ sawExit \in [Threads -> BOOLEAN]

\* Each thread was created with autoStart or with dontStart.
Init ==
    /\ state \in [Threads -> {"ready", "suspended"}]
    /\ delayed = [t \in Threads |-> FALSE]
    /\ exitSignal = [t \in Threads |-> Null]
    /\ pc = [t \in Threads |-> "run"]
    /\ target = [t \in Threads |-> Null]
    /\ count = [t \in Threads |-> 0]
    /\ error = [t \in Threads |-> "none"]
    /\ sawExit = [t \in Threads |-> FALSE]

\* Thread t executes its own code, outside every call of this module.
Runs(t) == state[t] = "ready" /\ pc[t] = "run"

InJoin(j) == pc[j] \in {"enter", "acquire", "clear"}
Published(j) == pc[j] \in {"acquire", "clear"}
Waiting(j) == state[j] = "SemaphoreSusp"

\* The state of a thread whose wait is over.
Awake(t) == IF delayed[t] THEN "suspended" ELSE "ready"

-----------------------------------------------------------------------------
(***************************************************************************)
(* join()                                                                  *)
(***************************************************************************)

\* Fault: the semaphore is created with an instance.
JoinWithInstance(j, t) ==
    /\ Runs(j)
    /\ \A o \in Threads : ~(InJoin(o) /\ target[o] = t)
    /\ pc' = [pc EXCEPT ![j] = "enter"]
    /\ target' = [target EXCEPT ![j] = t]
    /\ count' = [count EXCEPT ![j] = 1]
    /\ UNCHANGED <<state, delayed, exitSignal, error, sawExit>>

\* assert(not m_exitSignalPtr), and the semaphore is created.
Join(j, t) ==
    /\ Runs(j)
    /\ IF SerialJoin
       THEN \A o \in Threads : ~(InJoin(o) /\ target[o] = t)
       ELSE exitSignal[t] = Null
    /\ pc' = [pc EXCEPT ![j] = "enter"]
    /\ target' = [target EXCEPT ![j] = t]
    /\ count' = [count EXCEPT ![j] = 0]
    /\ UNCHANGED <<state, delayed, exitSignal, error, sawExit>>

\* Fault: only the join() of a thread on itself is refused.
JoinableWhenFinished(j, t) == t # j

Joinable(j, t) == t # j /\ state[t] \notin Finished

\* join() returns: its locals, the semaphore among them, are gone.
Return(j) ==
    /\ pc' = [pc EXCEPT ![j] = "run"]
    /\ target' = [target EXCEPT ![j] = Null]
    /\ count' = [count EXCEPT ![j] = 0]
    /\ error' = [error EXCEPT ![j] = "none"]
    /\ sawExit' = [sawExit EXCEPT ![j] = FALSE]

\* The critical section.
JoinEnter(j) ==
    /\ state[j] = "ready"
    /\ pc[j] = "enter"
    /\ \/ /\ ~Joinable(j, target[j])
          /\ Return(j)
          /\ UNCHANGED exitSignal
       \/ /\ Joinable(j, target[j])
          /\ exitSignal' = [exitSignal EXCEPT ![target[j]] = j]
          /\ pc' = [pc EXCEPT ![j] = "acquire"]
          /\ UNCHANGED <<target, count, error, sawExit>>
    /\ UNCHANGED <<state, delayed>>

\* exitSignal.acquire(): takes the count or suspends.
JoinAcquire(j) ==
    /\ state[j] = "ready"
    /\ pc[j] = "acquire"
    /\ \/ /\ count[j] = 1
          /\ count' = [count EXCEPT ![j] = 0]
          /\ pc' = [pc EXCEPT ![j] = "clear"]
          /\ error' = [error EXCEPT ![j] = "success"]
          /\ UNCHANGED state
       \/ /\ count[j] = 0
          /\ state' = [state EXCEPT ![j] = "SemaphoreSusp"]
          /\ UNCHANGED <<count, pc, error>>
    /\ UNCHANGED <<delayed, exitSignal, target, sawExit>>

\* Fault: the pointer is left as it is.
JoinForgetsPointer(j) ==
    /\ state[j] = "ready"
    /\ pc[j] = "clear"
    /\ Return(j)
    /\ UNCHANGED <<state, delayed, exitSignal>>

\* m_exitSignalPtr = nullptr.
JoinClear(j) ==
    /\ state[j] = "ready"
    /\ pc[j] = "clear"
    /\ exitSignal' = [exitSignal EXCEPT ![target[j]] = Null]
    /\ Return(j)
    /\ UNCHANGED <<state, delayed>>

JoinStep(j) == JoinEnter(j) \/ JoinAcquire(j) \/ JoinClear(j)

-----------------------------------------------------------------------------
\* Fault: the semaphore is released without regard to its ceiling.
ReleaseUncapped(t, j, final) ==
    /\ state' = [state EXCEPT ![t] = final, ![j] = IF Waiting(j) THEN Awake(j) ELSE @]
    /\ delayed' = [delayed EXCEPT ![t] = FALSE, ![j] = IF Waiting(j) THEN FALSE ELSE @]
    /\ pc' = [pc EXCEPT ![t] = "run", ![j] = IF Waiting(j) THEN "clear" ELSE @]
    /\ error' = [error EXCEPT ![t] = "none", ![j] = IF Waiting(j) THEN "success" ELSE @]
    /\ count' = [count EXCEPT ![t] = 0, ![j] = IF Waiting(j) THEN @ ELSE @ + 1]
    /\ sawExit' = [sawExit EXCEPT ![t] = FALSE, ![j] = @ \/ target[j] = t]

(***************************************************************************)
(* The end of a thread.  The kernel sets the state and then, before any    *)
(* other thread runs, calls entryExitNotifyCallback(), which releases the  *)
(* semaphore m_exitSignalPtr points to: the release wakes the joiner, or   *)
(* counts, or (the count being at the ceiling) fails.                      *)
(***************************************************************************)
Release(t, j, final) ==
    /\ \/ /\ Waiting(j)
          /\ state' = [state EXCEPT ![t] = final, ![j] = Awake(j)]
          /\ delayed' = [delayed EXCEPT ![t] = FALSE, ![j] = FALSE]
          /\ pc' = [pc EXCEPT ![t] = "run", ![j] = "clear"]
          /\ error' = [error EXCEPT ![t] = "none", ![j] = "success"]
          /\ count' = [count EXCEPT ![t] = 0]
       \/ /\ ~Waiting(j)
          /\ state' = [state EXCEPT ![t] = final]
          /\ delayed' = [delayed EXCEPT ![t] = FALSE]
          /\ pc' = [pc EXCEPT ![t] = "run"]
          /\ error' = [error EXCEPT ![t] = "none"]
          /\ count' = [count EXCEPT ![t] = 0, ![j] = 1]
    /\ sawExit' = [sawExit EXCEPT ![t] = FALSE, ![j] = @ \/ target[j] = t]

NoRelease(t, final) ==
    /\ state' = [state EXCEPT ![t] = final]
    /\ delayed' = [delayed EXCEPT ![t] = FALSE]
    /\ pc' = [pc EXCEPT ![t] = "run"]
    /\ error' = [error EXCEPT ![t] = "none"]
    /\ count' = [count EXCEPT ![t] = 0]
    /\ sawExit' = [sawExit EXCEPT ![t] = FALSE]

\* The semaphore m_exitSignalPtr of t points to is the one of j's join() on t.
Owns(j, t) == Published(j) /\ target[j] = t

\* Fault: the callback releases for a thread that completes only.
EndUnheardIfTerminated(t, final) ==
    /\ \/ /\ final = "completed"
          /\ \E j \in Threads : exitSignal[t] = j /\ InJoin(j) /\ Release(t, j, final)
       \/ /\ final = "completed" => \A j \in Threads : exitSignal[t] = j => ~Owns(j, t)
          /\ NoRelease(t, final)
    /\ target' = [target EXCEPT ![t] = Null]
    /\ UNCHANGED exitSignal

\* Where the joiner was killed the pointer dangles: the release then hits dead
\* memory, or the semaphore a later join() of that thread built in its place.
End(t, final) ==
    /\ \/ \E j \in Threads : exitSignal[t] = j /\ InJoin(j) /\ Release(t, j, final)
       \/ /\ \A j \in Threads : exitSignal[t] = j => ~Owns(j, t)
          /\ NoRelease(t, final)
    /\ target' = [target EXCEPT ![t] = Null]
    /\ UNCHANGED exitSignal

\* entryCallback() returns.
Exit(t) == Runs(t) /\ End(t, "completed")

\* terminate(), called by the thread itself, another one or a timer.
Terminate(t) ==
    /\ "terminate" \in Calls
    /\ state[t] \notin Finished
    /\ InJoin(t) => KillJoiner
    /\ End(t, "terminated")

-----------------------------------------------------------------------------
(***************************************************************************)
(* The other calls                                                         *)
(***************************************************************************)

\* reset(): the kernel rebuilds a finished thread, suspended at its entry.
Reset(t) ==
    /\ "reset" \in Calls
    /\ state[t] \in Finished
    /\ state' = [state EXCEPT ![t] = "suspended"]
    /\ UNCHANGED <<delayed, exitSignal, pc, target, count, error, sawExit>>

\* restart() is reset(), whose failure it returns, and then resume().
RestartReset(c, t) ==
    /\ "restart" \in Calls
    /\ Runs(c)
    /\ state[t] \in Finished
    /\ state' = [state EXCEPT ![t] = "suspended"]
    /\ pc' = [pc EXCEPT ![c] = "resume"]
    /\ target' = [target EXCEPT ![c] = t]
    /\ UNCHANGED <<delayed, exitSignal, count, error, sawExit>>

\* tx_thread_resume(): lifts a suspension, or one that is only pending.
Resumed(t) ==
    /\ state' = [state EXCEPT ![t] = IF @ = "suspended" THEN "ready" ELSE @]
    /\ delayed' = [delayed EXCEPT ![t] = FALSE]

RestartResume(c) ==
    /\ state[c] = "ready"
    /\ pc[c] = "resume"
    /\ Resumed(target[c])
    /\ pc' = [pc EXCEPT ![c] = "run"]
    /\ target' = [target EXCEPT ![c] = Null]
    /\ UNCHANGED <<exitSignal, count, error, sawExit>>

Resume(t) ==
    /\ state[t] = "suspended" \/ delayed[t]
    /\ Resumed(t)
    /\ UNCHANGED <<exitSignal, pc, target, count, error, sawExit>>

\* suspend(): at once, or when the thread's present wait is over.
Suspend(t) ==
    /\ "suspend" \in Calls
    /\ \/ /\ state[t] = "ready"
          /\ state' = [state EXCEPT ![t] = "suspended"]
          /\ UNCHANGED delayed
       \/ /\ state[t] \in {"sleep", "SemaphoreSusp"}
          /\ delayed' = [delayed EXCEPT ![t] = TRUE]
          /\ UNCHANGED state
    /\ UNCHANGED <<exitSignal, pc, target, count, error, sawExit>>

\* sleepFor(), and the end of the sleep.
Sleep(t) ==
    /\ "sleep" \in Calls
    /\ Runs(t)
    /\ state' = [state EXCEPT ![t] = "sleep"]
    /\ UNCHANGED <<delayed, exitSignal, pc, target, count, error, sawExit>>

WakeUp(t) ==
    /\ state[t] = "sleep"
    /\ state' = [state EXCEPT ![t] = Awake(t)]
    /\ delayed' = [delayed EXCEPT ![t] = FALSE]
    /\ UNCHANGED <<exitSignal, pc, target, count, error, sawExit>>

\* abortWait(): the wait of join() returns waitAborted.  A sleep ends as WakeUp.
AbortWait(t) ==
    /\ "abortWait" \in Calls
    /\ Waiting(t)
    /\ state' = [state EXCEPT ![t] = Awake(t)]
    /\ delayed' = [delayed EXCEPT ![t] = FALSE]
    /\ pc' = [pc EXCEPT ![t] = "clear"]
    /\ error' = [error EXCEPT ![t] = "waitAborted"]
    /\ UNCHANGED <<exitSignal, target, count, sawExit>>

-----------------------------------------------------------------------------
Next ==
    \/ \E j, t \in Threads : Join(j, t) \/ RestartReset(j, t)
    \/ \E j \in Threads : JoinStep(j) \/ RestartResume(j)
    \/ \E t \in Threads :
          \/ Exit(t) \/ Terminate(t) \/ Reset(t) \/ Resume(t)
          \/ Suspend(t) \/ Sleep(t) \/ WakeUp(t) \/ AbortWait(t)

Spec == Init /\ [][Next]_vars

\* A ready thread gets the core and takes its next step of join().
FairSpec == Spec /\ \A j \in Threads : WF_vars(JoinStep(j))

-----------------------------------------------------------------------------
(***************************************************************************)
(* Properties                                                              *)
(***************************************************************************)

(***************************************************************************)
(* No lost wake-up: a published joiner whose target has finished finds the *)
(* release in its semaphore, and no joiner sleeps on a count.  So a        *)
(* sleeping joiner always waits for a thread that can still finish         *)
(* (thread.hpp:321 and 331).                                               *)
(***************************************************************************)
NoLostWakeup ==
    \A j \in Threads : pc[j] = "acquire" =>
        /\ exitSignal[target[j]] = j
        /\ state[target[j]] \in Finished => count[j] = 1
        /\ Waiting(j) => count[j] = 0

(***************************************************************************)
(* m_exitSignalPtr never dangles: it points to the semaphore of a thread   *)
(* inside join() on this very thread, so the exit callback never touches a *)
(* stack frame that is gone.                                               *)
(***************************************************************************)
PointerValid ==
    \A t, j \in Threads : exitSignal[t] = j => Owns(j, t)

(***************************************************************************)
(* A join() whose acquire() succeeded returns after its target finished    *)
(* while it was waiting, however the target was restarted since.           *)
(***************************************************************************)
SuccessMeansExit ==
    \A j \in Threads : pc[j] = "clear" /\ error[j] = "success" => sawExit[j]

(***************************************************************************)
(* assert(not m_exitSignalPtr) of join() (thread.hpp:317) never fails.     *)
(***************************************************************************)
JoinAssert ==
    [][\A j, t \in Threads : Join(j, t) => exitSignal[t] = Null]_vars

(***************************************************************************)
(* assert(error == Error::success) of the exit callback (thread.hpp:378)   *)
(* never fails: the semaphore released is not at its ceiling.              *)
(***************************************************************************)
ReleaseAssert ==
    [][\A t, j \in Threads :
          state[t] \notin Finished /\ state'[t] \in Finished /\ exitSignal[t] = j
             => count[j] = 0]_vars

(***************************************************************************)
(* A published join() returns once its target has finished: "wait for      *)
(* release by exit notify callback" (thread.hpp:331) ends, unless somebody *)
(* suspends the joiner, which may last for ever.                           *)
(***************************************************************************)
Held(j) == delayed[j] \/ state[j] = "suspended"

JoinReturns ==
    \A j, t \in Threads :
        (Published(j) /\ target[j] = t /\ state[t] \in Finished)
            ~> (~Published(j) \/ Held(j))
=============================================================================
