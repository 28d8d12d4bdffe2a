----------------------------- MODULE EventFlags -----------------------------
(***************************************************************************)
(* EventFlags (eventFlags.hpp, eventFlags.cpp).  Each call is one service  *)
(* of the kernel.  A set() resumes every thread whose request the flags    *)
(* satisfy with it, and takes away what those with Option::clear asked     *)
(* for; all of them see the same flags.  Because of that the order of the  *)
(* suspension list does not matter, and a set stands for it.  After that   *)
(* the callback runs in the context that sets, when others may have run;   *)
(* it may make any call that neither suspends nor sets.                    *)
(***************************************************************************)
EXTENDS Naturals, FiniteSets

CONSTANTS
    Flags,
    Threads,    \* they may suspend
    Isrs,       \* interrupts, timers, initialisation: they do not wait
    Getters,    \* the contexts that ask for flags, with get() or a wait
    MaxSet      \* bound: how often a flag is set that was not set before

Contexts == Threads \cup Isrs

ASSUME EventFlagsAssumption ==
    /\ MaxSet \in Nat
    /\ Flags # {}
    /\ Getters \subseteq Contexts

Masks == (SUBSET Flags) \ {{}}

Option == {"dontClear", "clear"}

\* A call with its bitMask and Option; get() is a waitAll() that does not wait.
Requests == [mask : Masks, call : {"waitAll", "waitAny"}, option : Option]

VARIABLES
    exists,     \* between the constructor and the destructor
    flags,      \* tx_event_flags_group_current
    waiting,    \* the threads suspended on the group
    request,    \* of a context's last get or wait
    answer,     \* the BitmaskPair it returned, "none" while it is suspended
    telling,    \* contexts that have yet to leave the callback of a set()
    age,        \* how often each flag was set anew (history variable)
    fresh,      \* the events that the last step cleared for a waiter (history variable)
    used,       \* those cleared for a waiter before (history variable)
    dropped,    \* those clear() took away (history variable)
    unseen      \* set flags no callback has seen since (history variable)

vars == <<exists, flags, waiting, request, answer, telling, age, fresh, used, dropped, unseen>>

Errors == {"none", "success", "noEvents", "waitAborted", "deleted"}

\* An event is a flag and the number of times it has been set.
Events == Flags \X (1..MaxSet)

Event(f) == <<f, age[f]>>

TypeOK ==
    /\ exists \in BOOLEAN
    /\ flags \subseteq Flags
    /\ waiting \subseteq Threads
    /\ request \in [Contexts -> Requests]
    /\ answer \in [Contexts -> [error : Errors, flags : SUBSET Flags]]
    /\ age \in [Flags -> 0..MaxSet]
    /\ telling \subseteq Contexts
    /\ fresh \subseteq Events /\ used \subseteq Events /\ dropped \subseteq Events
    /\ unseen \subseteq flags

Nothing(error) == [error |-> error, flags |-> {}]

Init ==
    /\ exists = TRUE
    /\ flags = {} /\ waiting = {}
    /\ request = [c \in Contexts |-> [mask |-> Flags, call |-> "waitAll", option |-> "clear"]]
    /\ answer = [c \in Contexts |-> Nothing("none")]
    /\ age = [f \in Flags |-> 0]
    /\ telling = {}
    /\ fresh = {} /\ used = {} /\ dropped = {} /\ unseen = {}

\* Context c executes its own code, perhaps inside the callback.
Runs(c) == exists /\ c \notin waiting

(***************************************************************************)
(* What the calls make of an Option: a FlagOption, which the kernel gets   *)
(* as a number.                                                            *)
(***************************************************************************)
any == 0
orInto == any
anyClear == 1
all == 2
andInto == all
allClear == 3

\* Faults: waitAllFor() written after the model of waitAnyFor(), and an Option
\* that waitAnyFor() does not look at.
waitAllForAny(option) == IF option = "dontClear" THEN any ELSE anyClear
waitAnyForClearing(option) == anyClear

waitAllFor(option) == IF option = "dontClear" THEN all ELSE allClear
waitAnyFor(option) == IF option = "dontClear" THEN any ELSE anyClear

flagOption(q) == IF q.call = "waitAll" THEN waitAllFor(q.option) ELSE waitAnyFor(q.option)

(***************************************************************************)
(* What the kernel makes of the number: one bit asks for all flags, and in *)
(* tx_event_flags_set for an intersection; the other one clears.           *)
(***************************************************************************)
AndBit(o) == (o \div 2) % 2 = 1
ClearBit(o) == o % 2 = 1

Satisfied(q, fs) ==
    IF AndBit(flagOption(q)) THEN q.mask \subseteq fs ELSE q.mask \cap fs # {}

Taken(q) == IF ClearBit(flagOption(q)) THEN q.mask ELSE {}

\* The flags after tx_event_flags_set with m.
Changed(m, o) == IF AndBit(o) THEN flags \cap m ELSE flags \cup m

(***************************************************************************)
(* What the caller means: the history variables and the properties go by   *)
(* it.                                                                     *)
(***************************************************************************)
Fulfilled(q, fs) ==
    \/ q.call = "waitAll" /\ q.mask \subseteq fs
    \/ q.call = "waitAny" /\ q.mask \cap fs # {}

Meant(q) == {f \in q.mask : q.option = "clear"}

\* The events that leave the flags fs with the flags in m.
Consumes(m, fs, ages) == {<<f, ages[f]>> : f \in m \cap fs}

Notes(events) == fresh' = events /\ used' = used \cup fresh

-----------------------------------------------------------------------------
\* get(), and every wait that is satisfied at once.
GetAtOnce(c, q) ==
    /\ Runs(c)
    /\ Satisfied(q, flags)
    /\ flags' = flags \ Taken(q)
    /\ Notes(Consumes(Meant(q), flags, age))
    /\ request' = [request EXCEPT ![c] = q]
    /\ answer' = [answer EXCEPT ![c] = [error |-> "success", flags |-> flags]]
    /\ unseen' = unseen \cap flags'
    /\ UNCHANGED <<exists, waiting, telling, age, dropped>>

\* get() and a wait of no ticks return Error::noEvents.
GetFails(c, q) ==
    /\ Runs(c)
    /\ ~Satisfied(q, flags)
    /\ request' = [request EXCEPT ![c] = q]
    /\ answer' = [answer EXCEPT ![c] = Nothing("noEvents")]
    /\ Notes({})
    /\ UNCHANGED <<exists, flags, waiting, telling, age, dropped, unseen>>

\* waitAll(), waitAny() and their timed forms.
WaitBegins(t, q) ==
    /\ Runs(t) /\ t \notin telling
    /\ ~Satisfied(q, flags)
    /\ waiting' = waiting \cup {t}
    /\ request' = [request EXCEPT ![t] = q]
    /\ answer' = [answer EXCEPT ![t] = Nothing("none")]
    /\ Notes({})
    /\ UNCHANGED <<exists, flags, telling, age, dropped, unseen>>

\* A wait times out or is aborted.
WaitEnds(t, error) ==
    /\ t \in waiting
    /\ waiting' = waiting \ {t}
    /\ answer' = [answer EXCEPT ![t] = Nothing(error)]
    /\ Notes({})
    /\ UNCHANGED <<exists, flags, request, telling, age, dropped, unseen>>

-----------------------------------------------------------------------------
Resumed(fs) == {t \in waiting : Satisfied(request[t], fs)}

TakenBy(ts) == UNION {Taken(request[t]) : t \in ts}
MeantBy(ts) == UNION {Meant(request[t]) : t \in ts}

\* Fault: one thread is resumed, as by a semaphore.
SetResumesOne(c, m) ==
    LET fs   == Changed(m, orInto)
        ages == [f \in Flags |-> IF f \in m \ flags THEN age[f] + 1 ELSE age[f]]
    IN  /\ Runs(c) /\ c \notin telling
        /\ \A f \in Flags : ages[f] <= MaxSet
        /\ telling' = telling \cup {c}
        /\ age' = ages
        /\ \E t \in Resumed(fs) :
              /\ waiting' = waiting \ {t}
              /\ answer' = [answer EXCEPT ![t] = [error |-> "success", flags |-> fs]]
              /\ flags' = fs \ Taken(request[t])
              /\ Notes(Consumes(Meant(request[t]), fs, ages))
        /\ unseen' = (unseen \cup (m \ flags)) \cap flags'
        /\ UNCHANGED <<exists, request, dropped>>

\* set(): FlagOption::orInto.
Set(c, m) ==
    LET fs   == Changed(m, orInto)
        ages == [f \in Flags |-> IF f \in m \ flags THEN age[f] + 1 ELSE age[f]]
    IN  /\ Runs(c) /\ c \notin telling
        /\ \A f \in Flags : ages[f] <= MaxSet
        /\ telling' = telling \cup {c}
        /\ age' = ages
        /\ waiting' = waiting \ Resumed(fs)
        /\ answer' = [d \in Contexts |->
              IF d \in Resumed(fs) THEN [error |-> "success", flags |-> fs] ELSE answer[d]]
        /\ flags' = fs \ TakenBy(Resumed(fs))
        /\ Notes(Consumes(MeantBy(Resumed(fs)), fs, ages))
        /\ unseen' = (unseen \cup (m \ flags)) \cap flags'
        /\ UNCHANGED <<exists, request, dropped>>

\* Fault: the callback is not registered.
NotifyEndsUnheard(c) ==
    /\ c \in telling
    /\ Runs(c)
    /\ telling' = telling \ {c}
    /\ Notes({})
    /\ UNCHANGED <<exists, flags, waiting, request, answer, age, dropped, unseen>>

\* The callback, which sees what is set by now, returns, and with it set().
NotifyEnds(c) ==
    /\ c \in telling
    /\ Runs(c)
    /\ telling' = telling \ {c}
    /\ unseen' = {}
    /\ Notes({})
    /\ UNCHANGED <<exists, flags, waiting, request, answer, age, dropped>>

\* clear(): FlagOption::andInto with the complement of the mask.
Clear(m) ==
    /\ exists
    /\ flags' = Changed(Flags \ m, andInto)
    /\ dropped' = dropped \cup Consumes(m, flags, age)
    /\ unseen' = unseen \cap flags'
    /\ Notes({})
    /\ UNCHANGED <<exists, waiting, request, answer, telling, age>>

\* The destructor, with nobody inside the callback.
Destroy ==
    /\ exists
    /\ telling = {}
    /\ exists' = FALSE
    /\ waiting' = {}
    /\ answer' = [c \in Contexts |-> IF c \in waiting THEN Nothing("deleted") ELSE answer[c]]
    /\ Notes({})
    /\ UNCHANGED <<flags, request, telling, age, dropped, unseen>>

Next ==
    \/ \E c \in Getters, q \in Requests : GetAtOnce(c, q) \/ GetFails(c, q)
    \/ \E t \in Threads \cap Getters, q \in Requests : WaitBegins(t, q)
    \/ \E t \in Threads, error \in {"noEvents", "waitAborted"} : WaitEnds(t, error)
    \/ \E c \in Contexts : NotifyEnds(c) \/ \E m \in Masks : Set(c, m)
    \/ \E m \in Masks : Clear(m)
    \/ Destroy

Spec == Init /\ [][Next]_vars

-----------------------------------------------------------------------------
(***************************************************************************)
(* Properties                                                              *)
(***************************************************************************)

(***************************************************************************)
(* No thread is suspended while what it asked waitAll() or waitAny() for   *)
(* is there (eventFlags.hpp:45-55): neither the FlagOption the call chose, *)
(* nor a set() that resumes others first, nor a clear() or a consuming     *)
(* wait in between makes it miss that.                                     *)
(***************************************************************************)
NobodyOverlooked ==
    \A t \in waiting : ~Fulfilled(request[t], flags)

(***************************************************************************)
(* A call succeeds on what was asked of it only: the flags it returns with *)
(* success have all of the mask of a waitAll() or get(), at one moment,    *)
(* and one at least of a waitAny(), whichever FlagOption the wrapper made  *)
(* of it (eventFlags.hpp:60-68, 86-111) and whether the call waited or     *)
(* not; a call that failed returns none (eventFlags.hpp:113-119).          *)
(***************************************************************************)
AnswerHolds ==
    \A c \in Contexts :
        IF answer[c].error = "success"
        THEN Fulfilled(request[c], answer[c].flags)
        ELSE answer[c].flags = {}

(***************************************************************************)
(* An event stays until a call with Option::clear that named it succeeds,  *)
(* or a clear() that names it, and then it is gone: the FlagOption that is *)
(* chosen, the complement in clear() and the kernel take what the callers  *)
(* meant and no more (eventFlags.hpp:88-94, 104-110, eventFlags.cpp:32).   *)
(***************************************************************************)
EventsAccounted ==
    \A f \in Flags : age[f] > 0 =>
        (f \in flags <=> Event(f) \notin fresh \cup used \cup dropped)

(***************************************************************************)
(* An event that is cleared for a waiter is cleared for it alone, or for   *)
(* those that waited with it: nobody who comes later gets it a second time *)
(* (Option::clear, eventFlags.hpp:16-20).                                  *)
(***************************************************************************)
UsedOnce == fresh \cap (used \cup dropped) = {}

\* Both together: the account of every event.
Accounts == EventsAccounted /\ UsedOnce

(***************************************************************************)
(* A flag that is set has been seen by a callback since it was set anew,   *)
(* or a callback is about to come (eventFlags.cpp:12-16, 55-59): a         *)
(* consumer that looks from the callback only leaves no flag unseen,       *)
(* however other sets, clears and waits come between a set() and its call. *)
(***************************************************************************)
Announced == unseen = {} \/ telling # {}
=============================================================================
