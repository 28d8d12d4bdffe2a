-------------------------- MODULE EventFlagsProofs --------------------------
(***************************************************************************)
(* The accounts of an EventFlags group for any number of threads and flags *)
(* and any requests.                                                       *)
(***************************************************************************)
EXTENDS EventFlags, TLAPS

\* The FlagOption that is chosen says to the kernel what the caller means.
LEMMA OptionsUnderstood ==
    ASSUME NEW q \in Requests
    PROVE  /\ Taken(q) = Meant(q)
           /\ \A fs : Satisfied(q, fs) <=> Fulfilled(q, fs)
<1>1. q.call \in {"waitAll", "waitAny"} /\ q.option \in {"dontClear", "clear"}
  BY DEF Requests, Option
<1>2. flagOption(q) = (IF q.call = "waitAll" THEN 2 ELSE 0) + (IF q.option = "clear" THEN 1 ELSE 0)
  BY <1>1 DEF flagOption, waitAllFor, waitAnyFor, any, anyClear, all, allClear
<1>3. /\ AndBit(flagOption(q)) <=> q.call = "waitAll"
      /\ ClearBit(flagOption(q)) <=> q.option = "clear"
  BY <1>1, <1>2 DEF AndBit, ClearBit
<1> QED BY <1>1, <1>3 DEF Taken, Meant, Satisfied, Fulfilled

\* So do those of set() and clear().
LEMMA SetOptionsUnderstood ==
    ASSUME NEW m
    PROVE  Changed(m, orInto) = flags \cup m /\ Changed(m, andInto) = flags \cap m
BY DEF Changed, AndBit, orInto, any, andInto, all

Gone == fresh \cup used \cup dropped

\* The events of a flag that are gone are those before the present one.
PastOnly ==
    \A f \in Flags : \A n \in Nat : <<f, n>> \in Gone => n <= age[f]

IInv ==
    /\ flags \subseteq Flags
    /\ age \in [Flags -> Nat]
    /\ PastOnly
    /\ \A f \in flags : age[f] > 0
    /\ EventsAccounted
    /\ UsedOnce
    /\ \A e \in Gone : e \in Flags \X Nat
    /\ NobodyOverlooked

LEMMA InitIInv == Init => IInv
  BY DEF Init, IInv, PastOnly, Gone, EventsAccounted, UsedOnce, NobodyOverlooked

\* The flags in m leave those of fs, for waiters that asked for them.
LEMMA Consuming ==
    ASSUME IInv, NEW m \in SUBSET Flags, NEW new \in SUBSET Flags,
           NEW ages \in [Flags -> Nat],
           \A f \in Flags : ages[f] = IF f \in new \ flags THEN age[f] + 1 ELSE age[f],
           age' = ages, flags' = (flags \cup new) \ m, UNCHANGED dropped,
           Notes(Consumes(m, flags \cup new, ages))
    PROVE  /\ flags' \subseteq Flags /\ age' \in [Flags -> Nat] /\ PastOnly'
           /\ (\A f \in flags : age[f] > 0)'
           /\ EventsAccounted' /\ UsedOnce'
           /\ (\A e \in Gone : e \in Flags \X Nat)'
<1> DEFINE fs == flags \cup new
           now == Consumes(m, fs, ages)
<1>1. fresh' = now /\ used' = used \cup fresh /\ dropped' = dropped
  BY DEF Notes
<1>2. now = {<<f, ages[f]>> : f \in m \cap fs}
  BY DEF Consumes
<1>3. fs \subseteq Flags /\ flags' = fs \ m
  BY DEF IInv
<1>4. \A f \in fs : ages[f] > 0 /\ <<f, ages[f]>> \notin Gone
  <2> SUFFICES ASSUME NEW f \in fs PROVE ages[f] > 0 /\ <<f, ages[f]>> \notin Gone
    OBVIOUS
  <2>1. CASE f \in flags
    BY <2>1, <1>3 DEF IInv, EventsAccounted, Event, Gone
  <2>2. CASE f \notin flags
    BY <2>2, <1>3 DEF IInv, PastOnly
  <2> QED BY <2>1, <2>2
<1>5. Gone' = Gone \cup now
  BY <1>1 DEF Gone
<1>6. now \cap Gone = {} /\ \A e \in now : e \in Flags \X Nat
  <2> SUFFICES ASSUME NEW e \in now PROVE e \notin Gone /\ e \in Flags \X Nat
    OBVIOUS
  <2>1. PICK f \in m \cap fs : e = <<f, ages[f]>>
    BY <1>2
  <2> QED BY <1>3, <1>4, <2>1
<1>7. UsedOnce'
  BY <1>1, <1>6 DEF UsedOnce, Gone
<1>8. (\A e \in Gone : e \in Flags \X Nat)'
  BY <1>5, <1>6 DEF IInv
<1>9. PastOnly'
  <2> SUFFICES ASSUME NEW f \in Flags, NEW n \in Nat, <<f, n>> \in Gone' PROVE n <= age'[f]
    BY DEF PastOnly
  <2>1. CASE <<f, n>> \in now
    <3>1. PICK g \in m \cap fs : <<f, n>> = <<g, ages[g]>>
      BY <1>2, <2>1
    <3>2. f = g /\ n = ages[g]
      BY <3>1
    <3> QED BY <3>2
  <2>2. CASE <<f, n>> \in Gone
    BY <2>2 DEF IInv, PastOnly
  <2> QED BY <1>5, <2>1, <2>2
<1>10. EventsAccounted'
  <2> SUFFICES ASSUME NEW f \in Flags, age'[f] > 0
               PROVE  f \in flags' <=> <<f, ages[f]>> \notin Gone'
    BY DEF EventsAccounted, Event, Gone
  <2>1. CASE f \in fs
    <3>1. <<f, ages[f]>> \in now <=> f \in m
      BY <1>2, <2>1
    <3> QED BY <1>3, <1>4, <1>5, <2>1, <3>1
  <2>2. CASE f \notin fs
    <3>1. ages[f] = age[f] /\ f \notin flags
      BY <2>2
    <3>2. <<f, ages[f]>> \in Gone
      BY <3>1 DEF IInv, EventsAccounted, Event, Gone
    <3> QED BY <1>3, <1>5, <2>2, <3>2
  <2> QED BY <2>1, <2>2
<1>11. (\A f \in flags : age[f] > 0)'
  BY <1>3, <1>4
<1> QED BY <1>3, <1>7, <1>8, <1>9, <1>10, <1>11

\* Nothing happens to the events.
LEMMA EventsUnchanged ==
    ASSUME IInv, UNCHANGED <<flags, age, dropped>>, Notes({}) \/ UNCHANGED <<fresh, used>>,
           NobodyOverlooked'
    PROVE  IInv'
<1>1. Gone' = Gone
  BY DEF Gone, Notes
<1>2. UsedOnce'
  BY DEF UsedOnce, Notes, IInv
<1>3. PastOnly' /\ EventsAccounted'
  BY <1>1 DEF PastOnly, EventsAccounted, Event, IInv, Gone
<1> QED BY <1>1, <1>2, <1>3 DEF IInv

LEMMA FewerFlags ==
    ASSUME NEW q \in Requests, NEW fs, NEW gs, gs \subseteq fs, ~Fulfilled(q, fs)
    PROVE  ~Fulfilled(q, gs)
  BY DEF Fulfilled

Typed == request \in [Contexts -> Requests] /\ waiting \subseteq Threads

LEMMA NextIInv == ASSUME IInv, Typed, [Next]_vars PROVE IInv' /\ Typed'
<1>1. ASSUME NEW c \in Contexts, NEW q \in Requests, GetAtOnce(c, q) PROVE IInv' /\ Typed'
  <2> DEFINE m == Taken(q)
  <2>1. m \in SUBSET Flags
    BY DEF Taken, Requests, Masks
  <2>2. /\ age' = age /\ flags' = (flags \cup {}) \ m /\ UNCHANGED dropped
        /\ Notes(Consumes(m, flags \cup {}, age))
    BY <1>1, OptionsUnderstood DEF GetAtOnce
  <2>3. /\ flags' \subseteq Flags /\ age' \in [Flags -> Nat] /\ PastOnly'
        /\ (\A f \in flags : age[f] > 0)' /\ EventsAccounted' /\ UsedOnce'
        /\ (\A e \in Gone : e \in Flags \X Nat)'
    <3> HIDE DEF m
    <3> QED BY <2>1, <2>2, Consuming DEF IInv
  <2>4. Typed' /\ NobodyOverlooked'
    BY <1>1, <2>2, FewerFlags
    DEF GetAtOnce, Typed, NobodyOverlooked, Runs, IInv, Contexts
  <2> QED BY <2>3, <2>4 DEF IInv
<1>2. ASSUME NEW c \in Contexts, NEW q \in Requests, GetFails(c, q) PROVE IInv' /\ Typed'
  <2>1. Typed' /\ NobodyOverlooked'
    BY <1>2, OptionsUnderstood DEF GetFails, Typed, NobodyOverlooked, Runs, IInv
  <2> QED BY <1>2, <2>1, EventsUnchanged DEF GetFails
<1>3. ASSUME NEW t \in Threads, NEW q \in Requests, WaitBegins(t, q) PROVE IInv' /\ Typed'
  <2>1. Typed' /\ NobodyOverlooked'
    BY <1>3, OptionsUnderstood DEF WaitBegins, Typed, NobodyOverlooked, Runs, IInv, Contexts
  <2> QED BY <1>3, <2>1, EventsUnchanged DEF WaitBegins
<1>4. ASSUME NEW t \in Threads, NEW error, WaitEnds(t, error) PROVE IInv' /\ Typed'
  <2>1. Typed' /\ NobodyOverlooked'
    BY <1>4 DEF WaitEnds, Typed, NobodyOverlooked, IInv
  <2> QED BY <1>4, <2>1, EventsUnchanged DEF WaitEnds
<1>5. ASSUME NEW c \in Contexts, NEW n \in Masks, Set(c, n) PROVE IInv' /\ Typed'
  <2> DEFINE fs == flags \cup n
             ages == [f \in Flags |-> IF f \in n \ flags THEN age[f] + 1 ELSE age[f]]
             m == TakenBy(Resumed(fs))
  <2>1. m \in SUBSET Flags
    BY DEF TakenBy, Resumed, Taken, Typed, Requests, Masks, Contexts
  <2>a. MeantBy(Resumed(fs)) = m
    BY OptionsUnderstood DEF MeantBy, TakenBy, Resumed, Typed, Contexts
  <2>2. /\ age' = ages /\ flags' = fs \ m /\ UNCHANGED <<dropped, request, exists>>
        /\ waiting' = waiting \ Resumed(fs) /\ Notes(Consumes(m, fs, ages))
    BY <1>5, <2>a, SetOptionsUnderstood DEF Set
  <2>3. /\ n \in SUBSET Flags /\ ages \in [Flags -> Nat]
        /\ \A f \in Flags : ages[f] = IF f \in n \ flags THEN age[f] + 1 ELSE age[f]
    BY DEF Masks, IInv
  <2>4. /\ flags' \subseteq Flags /\ age' \in [Flags -> Nat] /\ PastOnly'
        /\ (\A f \in flags : age[f] > 0)' /\ EventsAccounted' /\ UsedOnce'
        /\ (\A e \in Gone : e \in Flags \X Nat)'
    <3> HIDE DEF m, ages
    <3> QED BY <2>1, <2>2, <2>3, Consuming
  <2>5. NobodyOverlooked'
    <3> SUFFICES ASSUME NEW t \in waiting' PROVE ~Fulfilled(request[t], flags')
      BY <2>2 DEF NobodyOverlooked
    <3>1. t \in waiting /\ ~Fulfilled(request[t], fs) /\ request[t] \in Requests
      BY <2>2, OptionsUnderstood DEF Resumed, Typed, Contexts
    <3> HIDE DEF m, fs
    <3>2. flags' \subseteq fs
      BY <2>2
    <3> QED BY <3>1, <3>2, FewerFlags
  <2>6. Typed'
    BY <2>2 DEF Typed
  <2> QED BY <2>4, <2>5, <2>6 DEF IInv
<1>6. ASSUME NEW m \in Masks, Clear(m) PROVE IInv' /\ Typed'
  <2>1. /\ flags' = flags \ m /\ age' = age /\ fresh' = {} /\ used' = used \cup fresh
        /\ dropped' = dropped \cup {<<f, age[f]>> : f \in m \cap flags}
        /\ UNCHANGED <<waiting, request>>
    BY <1>6, SetOptionsUnderstood DEF Clear, Notes, Consumes, IInv
  <2>2. Gone' = Gone \cup {<<f, age[f]>> : f \in m \cap flags}
    BY <2>1 DEF Gone
  <2>3. PastOnly'
    BY <2>1, <2>2 DEF PastOnly, IInv
  <2>4. UsedOnce'
    BY <2>1 DEF UsedOnce
  <2>5. EventsAccounted'
    <3> SUFFICES ASSUME NEW f \in Flags, age[f] > 0
                 PROVE  f \in flags' <=> <<f, age[f]>> \notin Gone'
      BY <2>1 DEF EventsAccounted, Event, Gone
    <3>1. <<f, age[f]>> \in {<<g, age[g]>> : g \in m \cap flags} <=> f \in m \cap flags
      OBVIOUS
    <3> QED BY <2>1, <2>2, <3>1 DEF IInv, EventsAccounted, Event, Gone
  <2>6. Typed' /\ NobodyOverlooked'
    BY <2>1, FewerFlags DEF Typed, NobodyOverlooked, IInv, Contexts
  <2>7. (\A e \in Gone : e \in Flags \X Nat)' /\ flags' \subseteq Flags
        /\ (\A f \in flags : age[f] > 0)'
    BY <2>1, <2>2 DEF IInv
  <2> QED BY <2>1, <2>3, <2>4, <2>5, <2>6, <2>7 DEF IInv
<1>7. CASE Destroy
  <2>1. Typed' /\ NobodyOverlooked'
    BY <1>7 DEF Destroy, Typed, NobodyOverlooked
  <2> QED BY <1>7, <2>1, EventsUnchanged DEF Destroy
<1>8. ASSUME NEW c \in Contexts, NotifyEnds(c) PROVE IInv' /\ Typed'
  <2>1. Typed' /\ NobodyOverlooked'
    BY <1>8 DEF NotifyEnds, Typed, NobodyOverlooked, IInv
  <2> QED BY <1>8, <2>1, EventsUnchanged DEF NotifyEnds
<1>9. CASE UNCHANGED vars
  <2>1. Typed' /\ NobodyOverlooked'
    BY <1>9 DEF vars, Typed, NobodyOverlooked, IInv
  <2> QED BY <1>9, <2>1, EventsUnchanged DEF vars
<1> QED BY <1>1, <1>2, <1>3, <1>4, <1>5, <1>6, <1>7, <1>8, <1>9, EventFlagsAssumption, Zenon DEF Next

LEMMA InitTyped == Init => Typed
  BY EventFlagsAssumption DEF Init, Typed, Requests, Masks, Option

(* No thread waits for flags that are set.                                  *)
THEOREM NobodyWaitsForSetFlags == Spec => []NobodyOverlooked
<1>1. IInv => NobodyOverlooked BY DEF IInv
<1> QED BY <1>1, InitIInv, InitTyped, NextIInv, PTL DEF Spec

(* Every event is there until a waiter or clear() takes it, then it is gone *)
(* and never taken a second time.                                           *)
THEOREM AllEventsAccounted == Spec => []Accounts
<1>1. IInv => Accounts BY DEF IInv, Accounts
<1> QED BY <1>1, InitIInv, InitTyped, NextIInv, PTL DEF Spec

-----------------------------------------------------------------------------
LEMMA NextAnswers ==
    ASSUME Typed, answer \in [Contexts -> [error : Errors, flags : SUBSET Flags]],
           flags \subseteq Flags, AnswerHolds, [Next]_vars
    PROVE  AnswerHolds' /\ answer' \in [Contexts -> [error : Errors, flags : SUBSET Flags]]
<1> DEFINE Answers == [error : Errors, flags : SUBSET Flags]
<1>1. \A e \in Errors : Nothing(e) \in Answers /\ Nothing(e).error = e /\ Nothing(e).flags = {}
  BY DEF Nothing
<1>2. ASSUME NEW c \in Contexts, NEW q \in Requests, NEW a \in Answers,
             request' = [request EXCEPT ![c] = q], answer' = [answer EXCEPT ![c] = a],
             a.error = "success" => Fulfilled(q, a.flags),
             a.error # "success" => a.flags = {}
      PROVE  AnswerHolds' /\ answer' \in [Contexts -> Answers]
  BY <1>2 DEF AnswerHolds, Typed
<1>3. ASSUME NEW c \in Contexts, NEW q \in Requests, GetAtOnce(c, q)
      PROVE  AnswerHolds' /\ answer' \in [Contexts -> Answers]
  <2> DEFINE a == [error |-> "success", flags |-> flags]
  <2>1. a \in Answers /\ a.error = "success" /\ a.flags = flags
    BY DEF Errors
  <2>2. Fulfilled(q, flags) /\ request' = [request EXCEPT ![c] = q]
        /\ answer' = [answer EXCEPT ![c] = a]
    BY <1>3, OptionsUnderstood DEF GetAtOnce
  <2> HIDE DEF a
  <2> QED BY <1>2, <2>1, <2>2
<1>4. ASSUME NEW c \in Contexts, NEW q \in Requests,
             GetFails(c, q) \/ WaitBegins(c, q)
      PROVE  AnswerHolds' /\ answer' \in [Contexts -> Answers]
  <2>1. PICK e \in {"noEvents", "none"} :
            request' = [request EXCEPT ![c] = q] /\ answer' = [answer EXCEPT ![c] = Nothing(e)]
    BY <1>4 DEF GetFails, WaitBegins
  <2>2. Nothing(e) \in Answers /\ Nothing(e).error # "success" /\ Nothing(e).flags = {}
    BY <1>1 DEF Errors
  <2> QED BY <1>2, <2>1, <2>2
<1>5. ASSUME NEW t \in Threads, NEW e \in {"noEvents", "waitAborted"}, WaitEnds(t, e)
      PROVE  AnswerHolds' /\ answer' \in [Contexts -> Answers]
  <2>1. Nothing(e) \in Answers /\ Nothing(e).error # "success" /\ Nothing(e).flags = {}
    BY <1>1 DEF Errors
  <2> QED BY <1>5, <2>1 DEF WaitEnds, AnswerHolds, Contexts
<1>6. ASSUME NEW c \in Contexts, NEW m \in Masks, Set(c, m)
      PROVE  AnswerHolds' /\ answer' \in [Contexts -> Answers]
  <2> DEFINE fs == flags \cup m
             a == [error |-> "success", flags |-> fs]
  <2>1. a \in Answers /\ a.error = "success" /\ a.flags = fs
    BY DEF Errors, Masks
  <2>2. /\ answer' = [d \in Contexts |-> IF d \in Resumed(fs) THEN a ELSE answer[d]]
        /\ request' = request
    BY <1>6, SetOptionsUnderstood DEF Set
  <2>3. \A d \in Resumed(fs) : Fulfilled(request[d], fs)
    BY OptionsUnderstood DEF Resumed, Typed, Contexts
  <2> HIDE DEF a, fs
  <2>4. ASSUME NEW d \in Contexts
        PROVE  /\ answer'[d] \in Answers
               /\ answer'[d].error = "success" => Fulfilled(request'[d], answer'[d].flags)
               /\ answer'[d].error # "success" => answer'[d].flags = {}
    BY <2>1, <2>2, <2>3 DEF AnswerHolds
  <2> QED BY <2>2, <2>4 DEF AnswerHolds
<1>7. CASE Destroy
  <2>1. "deleted" \in Errors
    BY DEF Errors
  <2>2. /\ answer' = [c \in Contexts |-> IF c \in waiting THEN Nothing("deleted") ELSE answer[c]]
        /\ request' = request
    BY <1>7 DEF Destroy
  <2> QED BY <1>1, <2>1, <2>2 DEF AnswerHolds
<1>8. ASSUME UNCHANGED <<request, answer>>
      PROVE  AnswerHolds' /\ answer' \in [Contexts -> Answers]
  BY <1>8 DEF AnswerHolds
<1>9. (\E m \in Masks : Clear(m)) \/ (\E c \in Contexts : NotifyEnds(c)) \/ UNCHANGED vars
      => UNCHANGED <<request, answer>>
  BY DEF Clear, NotifyEnds, vars
<1>10. Threads \subseteq Contexts
  BY DEF Contexts
<1> QED BY <1>3, <1>4, <1>5, <1>6, <1>7, <1>8, <1>9, <1>10, EventFlagsAssumption, Zenon DEF Next

(* A call that succeeds returns what was asked of it by its name, at one    *)
(* moment, whatever FlagOption the wrapper made of it; one that fails       *)
(* returns none.                                                            *)
THEOREM AnswersHold == Spec => []AnswerHolds
<1> DEFINE AInv == /\ Typed /\ IInv /\ AnswerHolds
                   /\ answer \in [Contexts -> [error : Errors, flags : SUBSET Flags]]
<1>1. Init => AInv
  BY InitTyped, InitIInv DEF Init, AnswerHolds, Nothing, Errors
<1>2. AInv /\ [Next]_vars => AInv'
  BY NextIInv, NextAnswers DEF IInv
<1> QED BY <1>1, <1>2, PTL DEF Spec

(* A flag no callback has seen has a callback coming.                       *)
THEOREM CallbackComes == Spec => []Announced
<1>1. Init => Announced
  BY DEF Init, Announced
<1>2. Announced /\ [Next]_vars => Announced'
  BY DEF Next, vars, GetAtOnce, GetFails, WaitBegins, WaitEnds, Set, Clear, NotifyEnds,
         Destroy, Announced
<1> QED BY <1>1, <1>2, PTL DEF Spec
=============================================================================
