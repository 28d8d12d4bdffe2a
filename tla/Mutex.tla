------------------------------- MODULE Mutex -------------------------------
(***************************************************************************)
(* Mutex and the guards over it (mutex.hpp, mutex.cpp).  A thread enters a *)
(* section with a LockGuard or a UniqueLock, whose constructor calls       *)
(* lock() and drops the Error it returns, or with a call of its own whose  *)
(* Error it checks; sections nest.                                         *)
(* The kernel's mutex counts what its owner locked, hands itself over when *)
(* the count returns to zero, to the first waiter or, with priority        *)
(* inheritance, to the first of the most important ones, and is given up   *)
(* by a thread that is terminated.  A call that fails at once (tryLock()   *)
(* of a mutex another thread owns) changes nothing.                        *)
(***************************************************************************)
EXTENDS Naturals, SequencesExt

CONSTANTS
    Threads,
    Nobody,
    Priority,       \* of each thread; smaller is more important
    Inherit,        \* TRUE: InheritMode::inherit
    AbortGuards,    \* TRUE: the application aborts the wait of a guard, too
    MaxDepth        \* bound: how deep a thread nests its sections

ASSUME MutexAssumption ==
    /\ Nobody \notin Threads
    /\ Priority \in [Threads -> Nat]
    /\ Inherit \in BOOLEAN
    /\ AbortGuards \in BOOLEAN
    /\ MaxDepth \in Nat \ {0}

VARIABLES
    exists,     \* between the constructor and the destructor
    owner,      \* tx_mutex_owner
    count,      \* tx_mutex_ownership_count
    waiters,    \* the suspension list, its head first
    how,        \* what a thread last waited with: "guard" or "checked"
    depth       \* how many sections a thread is in

vars == <<exists, owner, count, waiters, how, depth>>

IsWaiting(t) == \E i \in 1..Len(waiters) : waiters[i] = t

TypeOK ==
    /\ exists \in BOOLEAN
    /\ owner \in Threads \cup {Nobody}
    /\ count \in 0..MaxDepth
    /\ waiters \in Seq(Threads)
    /\ how \in [Threads -> {"guard", "checked"}]
    /\ depth \in [Threads -> 0..MaxDepth]

Init ==
    /\ exists = TRUE
    /\ owner = Nobody
    /\ count = 0
    /\ waiters = <<>>
    /\ how = [t \in Threads |-> "checked"]
    /\ depth = [t \in Threads |-> 0]

\* The thread at place i of the list leaves it.
Leaves(i) == waiters' = RemoveAt(waiters, i)

\* It moves to the front, past those before it.
MovesToFront(i) ==
    waiters' = [k \in 1..Len(waiters) |->
                   waiters[IF k = 1 THEN i ELSE IF k <= i THEN k - 1 ELSE k]]

\* The first of the most important waiters.
IsFirst(i) ==
    \A k \in 1..Len(waiters) :
        \/ Priority[waiters[i]] < Priority[waiters[k]]
        \/ Priority[waiters[i]] = Priority[waiters[k]] /\ i <= k

-----------------------------------------------------------------------------
(***************************************************************************)
(* lock(), and the other forms where they do the same.                     *)
(***************************************************************************)
Lock(t, h) ==
    /\ exists
    /\ ~IsWaiting(t)
    /\ depth[t] < MaxDepth
    /\ \/ /\ owner \in {Nobody, t}
          /\ owner' = t
          /\ count' = count + 1
          /\ depth' = [depth EXCEPT ![t] = @ + 1]
          /\ UNCHANGED <<waiters, how>>
       \/ /\ owner \notin {Nobody, t}
          /\ waiters' = Append(waiters, t)
          /\ how' = [how EXCEPT ![t] = h]
          /\ UNCHANGED <<owner, count, depth>>
    /\ UNCHANGED exists

\* Fault: the caller of tryLockFor() goes on without a look at the Error.
WaitEndsUnchecked(t) ==
    /\ \E i \in 1..Len(waiters) : waiters[i] = t /\ Leaves(i)
    /\ how[t] = "guard" => AbortGuards
    /\ depth' = [depth EXCEPT ![t] = @ + 1]
    /\ UNCHANGED <<exists, owner, count, how>>

\* A wait ends without the mutex: it timed out (tryLockFor(), tryLockUntil()) or
\* abortWait() was called.  A guard enters its section all the same.
WaitEnds(t) ==
    /\ \E i \in 1..Len(waiters) : waiters[i] = t /\ Leaves(i)
    /\ how[t] = "guard" => AbortGuards
    /\ depth' = IF how[t] = "guard" THEN [depth EXCEPT ![t] = @ + 1] ELSE depth
    /\ UNCHANGED <<exists, owner, count, how>>

\* The mutex goes to a waiter, which enters its section, or to nobody.
HandOver(d) ==
    \/ /\ waiters = <<>>
       /\ owner' = Nobody
       /\ count' = 0
       /\ depth' = d
       /\ UNCHANGED waiters
    \/ \E i \in 1..Len(waiters) :
          /\ IF Inherit THEN IsFirst(i) ELSE i = 1
          /\ owner' = waiters[i]
          /\ count' = 1
          /\ depth' = [d EXCEPT ![waiters[i]] = @ + 1]
          /\ Leaves(i)

\* Faults: a waiter is not let in, every unlock() gives the mutex away.
UnlockKeeps(t) ==
    /\ depth[t] > 0
    /\ exists
    /\ ~IsWaiting(t)
    /\ depth' = [depth EXCEPT ![t] = @ - 1]
    /\ count' = IF owner = t THEN count - 1 ELSE count
    /\ owner' = IF owner = t /\ count = 1 THEN Nobody ELSE owner
    /\ UNCHANGED <<exists, waiters, how>>

UnlockAll(t) ==
    /\ depth[t] > 0
    /\ exists
    /\ ~IsWaiting(t)
    /\ \/ owner = t /\ HandOver([depth EXCEPT ![t] = @ - 1])
       \/ /\ owner # t
          /\ depth' = [depth EXCEPT ![t] = @ - 1]
          /\ UNCHANGED <<owner, count, waiters>>
    /\ UNCHANGED <<exists, how>>

\* unlock(), by a guard's destructor or by hand: notOwned, which a guard drops
\* too, if the thread is not the owner.
Unlock(t) ==
    /\ depth[t] > 0
    /\ exists
    /\ ~IsWaiting(t)
    /\ \/ owner = t /\ count = 1 /\ HandOver([depth EXCEPT ![t] = @ - 1])
       \/ /\ owner = t /\ count > 1
          /\ count' = count - 1
          /\ depth' = [depth EXCEPT ![t] = @ - 1]
          /\ UNCHANGED <<owner, waiters>>
       \/ /\ owner # t
          /\ depth' = [depth EXCEPT ![t] = @ - 1]
          /\ UNCHANGED <<owner, count, waiters>>
    /\ UNCHANGED <<exists, how>>

Prioritise ==
    /\ exists
    /\ \E i \in 1..Len(waiters) : IsFirst(i) /\ MovesToFront(i)
    /\ UNCHANGED <<exists, owner, count, how, depth>>

\* Thread::terminate(): no destructor of a guard runs, the kernel gives up what
\* the thread owned.  The thread may be restarted.
Terminate(t) ==
    /\ \/ /\ owner = t
          /\ HandOver([depth EXCEPT ![t] = 0])
       \/ /\ owner # t
          /\ depth' = [depth EXCEPT ![t] = 0]
          /\ \/ \E i \in 1..Len(waiters) : waiters[i] = t /\ Leaves(i)
             \/ ~IsWaiting(t) /\ UNCHANGED waiters
          /\ UNCHANGED <<owner, count>>
    /\ UNCHANGED <<exists, how>>

\* The destructor, once no guard refers to the mutex: waiters get Error::deleted.
Destroy ==
    /\ exists
    /\ \A t \in Threads : depth[t] = 0 /\ (IsWaiting(t) => how[t] = "checked")
    /\ exists' = FALSE
    /\ owner' = Nobody
    /\ count' = 0
    /\ waiters' = <<>>
    /\ UNCHANGED <<how, depth>>

Next ==
    \/ \E t \in Threads :
          \/ \E h \in {"guard", "checked"} : Lock(t, h)
          \/ WaitEnds(t) \/ Unlock(t) \/ Terminate(t)
    \/ Prioritise
    \/ Destroy

Spec == Init /\ [][Next]_vars

\* Sections end: a thread inside one leaves it, and the outermost one, too, however
\* often it nests others inside.
FairSpec == Spec /\ \A t \in Threads : SF_vars(depth[t] = 1 /\ Unlock(t)) /\ WF_vars(Unlock(t))

-----------------------------------------------------------------------------
(***************************************************************************)
(* Properties                                                              *)
(***************************************************************************)

Inside(t) == depth[t] > 0

(***************************************************************************)
(* "locking access to resources" (mutex.hpp:21): two threads are never     *)
(* inside sections of the same mutex, guards and checked calls mixed.      *)
(***************************************************************************)
Exclusion == \A t, u \in Threads : Inside(t) /\ Inside(u) => t = u

(***************************************************************************)
(* The mutex is owned by the thread that is inside, once for each section  *)
(* it is in: guards that nest, fail, or die with their thread leave no     *)
(* ownership behind and take none away.                                    *)
(***************************************************************************)
Balanced ==
    \A t \in Threads : depth[t] = (IF owner = t THEN count ELSE 0)

(***************************************************************************)
(* Nobody waits for a free mutex, or for one it owns itself.               *)
(***************************************************************************)
WaitsForAnother ==
    \A t \in Threads : IsWaiting(t) => owner # Nobody /\ owner # t

(***************************************************************************)
(* A thread of the highest priority that waits gets the mutex, or gives    *)
(* up: threads of its own priority cannot overtake it for ever, and those  *)
(* of lower priority not at all ("Places the highest priority thread       *)
(* suspended for ownership of the mutex at the front", mutex.hpp:53).      *)
(***************************************************************************)
TopPriorityGetsIn ==
    \A t \in Threads :
        (\A u \in Threads : Priority[t] <= Priority[u])
            => (IsWaiting(t) ~> ~IsWaiting(t))
=============================================================================
