----------------------------- MODULE ThreadLife -----------------------------
(***************************************************************************)
(* Construction and destruction of Thread objects (thread.hpp) around the  *)
(* calls of module Thread, with stacks from a BytePool (memoryPool.hpp).   *)
(* A constructor allocates the stack, creates the thread, registers its    *)
(* callback, and then that of the derived class runs; a destructor runs    *)
(* after that of the derived class, terminates the thread, deletes it, and *)
(* then the stack goes back to the pool.  Any thread may run in between.   *)
(***************************************************************************)
EXTENDS Thread, Integers, FiniteSetsExt

CONSTANTS
    Mortal,     \* the threads that come and go; the others live as long as the program
    StackSize,  \* of each of them, in bytes
    Word,       \* sizeof(Ulong), which is sizeof(uintptr_t)
    MinBlock,   \* TX_BYTE_BLOCK_MIN: a smaller rest of a block is not split off
    Habits      \* what the application takes care of, see below

LifeHabits ==
    {"startsWhole",     \* a thread is created with dontStart, and resumed when its
                        \* object is constructed
     "endsFirst",       \* an object is destroyed when its thread has finished or is suspended
     "callsDone"}       \* and when nobody is inside a call on it

\* What a stack takes from the pool: whole words after a pointer and a word.
Header == 2 * Word
Need(t) == Header + ((StackSize[t] + Word - 1) \div Word) * Word

ASSUME LifeAssumption ==
    /\ Mortal \subseteq Threads
    /\ Word \in Nat \ {0}
    /\ MinBlock \in Nat
    /\ StackSize \in [Mortal -> Nat]
    /\ \A t \in Mortal : StackSize[t] % Word = 0 /\ Need(t) >= MinBlock
    /\ Habits \subseteq LifeHabits

VARIABLES
    life,       \* how far the object has come, "alive" between its constructors
                \* and its destructors
    created,    \* the threads the kernel knows
    stack       \* the part of the pool a thread's m_stackAlloc holds

lifeVars == <<life, created, stack>>
allVars == <<vars, life, created, stack>>

Alive(t) == life[t] = "alive"

-----------------------------------------------------------------------------
(***************************************************************************)
(* The pool                                                                *)
(***************************************************************************)

\* Fault: no room for the block that marks the end.
PoolSizeWithoutEnd == MapThenSumSet(LAMBDA t : StackSize[t] + Header, Mortal)

\* The pool has minimumPoolSize() of all stacks.
PoolSize == Header + MapThenSumSet(LAMBDA t : StackSize[t] + Header, Mortal)

\* The block that marks the end is not for use.
PoolEnd == PoolSize - Header

Nothing == [from |-> 0, to |-> 0]

Spans == [from : 0..PoolEnd, to : 0..PoolEnd]

Taken == {stack[t] : t \in Mortal} \ {Nothing}

\* The free blocks: neighbours are merged when the kernel looks for memory.
Holes ==
    {h \in [from : {0} \cup {s.to : s \in Taken}, to : {PoolEnd} \cup {s.from : s \in Taken}] :
        /\ h.from < h.to
        /\ \A s \in Taken : s.to <= h.from \/ h.to <= s.from}

Fits(t, h) == h.to - h.from >= Need(t)

\* What t gets of the hole h.
Cut(t, h) ==
    IF h.to - h.from - Need(t) >= MinBlock THEN [h EXCEPT !.to = h.from + Need(t)] ELSE h

-----------------------------------------------------------------------------
LifeTypeOK ==
    /\ life \in [Threads -> {"none", "allocated", "created", "registered", "alive",
                             "undressed", "terminated"}]
    /\ created \subseteq Threads
    /\ stack \in [Mortal -> Spans]

LifeInit ==
    /\ Init
    /\ \A t \in Mortal : state[t] = "suspended"
    /\ life = [t \in Threads |-> IF t \in Mortal THEN "none" ELSE "alive"]
    /\ created = Threads \ Mortal
    /\ stack = [t \in Mortal |-> Nothing]

Becomes(t, from, to) == life[t] = from /\ life' = [life EXCEPT ![t] = to]

(***************************************************************************)
(* Constructors.  m_stackAlloc allocates without waiting, from whatever    *)
(* hole the kernel's search comes upon, ...                                *)
(***************************************************************************)
Allocate(t) ==
    /\ Becomes(t, "none", "allocated")
    /\ \E h \in Holes : Fits(t, h) /\ stack' = [stack EXCEPT ![t] = Cut(t, h)]
    /\ UNCHANGED <<vars, created>>

\* Fault: the thread starts at once, whatever the application asked for.
CreateStarted(t, startType) ==
    /\ Becomes(t, "allocated", "created")
    /\ created' = created \cup {t}
    /\ state' = [state EXCEPT ![t] = "ready"]
    /\ exitSignal' = [exitSignal EXCEPT ![t] = Null]
    /\ UNCHANGED <<delayed, pc, target, count, error, sawExit, stack>>

\* ... tx_thread_create: m_exitSignalPtr is null; the thread is ready at once, or
\* suspended, as startType says, which is autoStart where it is left out ...
Create(t, startType) ==
    /\ Becomes(t, "allocated", "created")
    /\ created' = created \cup {t}
    /\ state' = [state EXCEPT ![t] = IF startType = "autoStart" THEN "ready" ELSE "suspended"]
    /\ exitSignal' = [exitSignal EXCEPT ![t] = Null]
    /\ UNCHANGED <<delayed, pc, target, count, error, sawExit, stack>>

\* ... the callback, and then the constructor of the derived class, with
\* entryCallback().
Register(t) ==
    /\ Becomes(t, "created", "registered")
    /\ UNCHANGED <<vars, created, stack>>

Complete(t) ==
    /\ Becomes(t, "registered", "alive")
    /\ UNCHANGED <<vars, created, stack>>

(***************************************************************************)
(* Destructors: that of the derived class, ...                             *)
(***************************************************************************)
Undress(t) ==
    /\ t \in Mortal
    /\ Becomes(t, "alive", "undressed")
    /\ InJoin(t) => KillJoiner
    /\ "endsFirst" \in Habits => state[t] \in Finished \cup {"suspended"}
    /\ "callsDone" \in Habits => \A c \in Threads : target[c] # t
    /\ UNCHANGED <<vars, created, stack>>

\* Fault: the destructor relies on the application to end the thread.
DestructUnterminated(t) ==
    /\ Becomes(t, "undressed", "terminated")
    /\ UNCHANGED <<vars, created, stack>>

\* ... tx_thread_terminate, which does nothing to a thread that has finished, ...
Destruct(t) ==
    /\ Becomes(t, "undressed", "terminated")
    /\ \/ state[t] \in Finished /\ UNCHANGED vars
       \/ state[t] \notin Finished /\ End(t, "terminated")
    /\ UNCHANGED <<created, stack>>

\* ... tx_thread_delete, which refuses a thread that has not finished, and the
\* destructor of m_stackAlloc.
Delete(t) ==
    /\ Becomes(t, "terminated", "none")
    /\ created' = IF state[t] \in Finished THEN created \ {t} ELSE created
    /\ stack' = [stack EXCEPT ![t] = Nothing]
    /\ UNCHANGED vars

-----------------------------------------------------------------------------
StartTypes == {"dontStart"} \cup (IF "startsWhole" \in Habits THEN {} ELSE {"autoStart"})

\* Threads run, and calls are made on objects that are there.
RunStep(t) == JoinStep(t) \/ RestartResume(t) \/ Exit(t) \/ Sleep(t) \/ WakeUp(t)

CallOn(t) ==
    /\ Alive(t)
    /\ \/ \E c \in Threads : Join(c, t) \/ RestartReset(c, t)
       \/ Terminate(t) \/ Reset(t) \/ Resume(t) \/ Suspend(t) \/ AbortWait(t)

LifeStep(t) ==
    \/ Allocate(t) \/ Register(t) \/ Complete(t)
    \/ \E startType \in StartTypes : Create(t, startType)
    \/ Undress(t) \/ Destruct(t) \/ Delete(t)

LifeNext ==
    \/ \E t \in Threads : (RunStep(t) \/ CallOn(t)) /\ UNCHANGED lifeVars
    \/ \E t \in Mortal : LifeStep(t)

LifeSpec == LifeInit /\ [][LifeNext]_allVars

LifeFairSpec == LifeSpec /\ \A j \in Threads : WF_vars(JoinStep(j))

-----------------------------------------------------------------------------
(***************************************************************************)
(* Properties                                                              *)
(***************************************************************************)

\* Steps of the code that entryCallback() of thread t consists of.
EntryRuns(t) ==
    Exit(t) \/ Sleep(t) \/ \E u \in Threads : Join(t, u) \/ RestartReset(t, u)

(***************************************************************************)
(* "to execute at the entry point defined at thread creation"              *)
(* (thread.hpp:116): what entryFunction() calls (thread.hpp:352-355) is    *)
(* the entryCallback() of the derived class, never the pure virtual one of *)
(* Thread that is in force before and after.  It fails for a thread that   *)
(* was started by default, with autoStart (thread.hpp:99, 216).            *)
(***************************************************************************)
EntersDerived == [][\A t \in Threads : EntryRuns(t) => Alive(t)]_allVars

(***************************************************************************)
(* A thread the kernel knows has its stack: the memory goes back to the    *)
(* pool only after tx_thread_delete has succeeded (thread.hpp:223-230,     *)
(* memoryPool.hpp:176-182).                                                *)
(***************************************************************************)
StackHeld == \A t \in created \cap Mortal : stack[t] # Nothing

(***************************************************************************)
(* The assertion of the Allocation (memoryPool.hpp:159) holds: a pool of   *)
(* minimumPoolSize() has room for every thread that is not there, in       *)
(* whatever order they were constructed and destroyed before.  This is so  *)
(* for two threads and for stacks of one size; three of different size can *)
(* leave the pool in pieces that are too small.                            *)
(***************************************************************************)
RoomForAll ==
    \A t \in Mortal : stack[t] = Nothing => \E h \in Holes : Fits(t, h)

(***************************************************************************)
(* To the others, a destroyed thread that is constructed anew looks like   *)
(* one that was reset: what module Thread says of join() holds for threads *)
(* that come and go (thread.hpp:164-180, 223-230, 315-335).                *)
(***************************************************************************)
ImplementsThread == Spec
=============================================================================
