---------------------------- MODULE MutexProofs ----------------------------
(***************************************************************************)
(* Mutual exclusion of the sections of a Mutex, for any number of threads, *)
(* any priorities and any nesting, as long as nobody aborts the wait of a  *)
(* guard.                                                                  *)
(***************************************************************************)
EXTENDS Mutex, SequenceTheorems, TLAPS

GuardsWait == AbortGuards = FALSE

\* A thread is in the suspension list once.
ListedOnce ==
    \A i, k \in 1..Len(waiters) : waiters[i] = waiters[k] => i = k

\* The owner is the one who counts.
Owned == owner = Nobody <=> count = 0

IInv == TypeOK /\ ListedOnce /\ Owned /\ Balanced /\ WaitsForAnother

LEMMA RemoveAtFacts ==
    ASSUME NEW S, NEW s \in Seq(S), NEW i \in 1..Len(s)
    PROVE  /\ RemoveAt(s, i) \in Seq(S)
           /\ Len(RemoveAt(s, i)) = Len(s) - 1
           /\ \A k \in 1..(Len(s) - 1) :
                 RemoveAt(s, i)[k] = IF k < i THEN s[k] ELSE s[k + 1]
<1>1. /\ SubSeq(s, 1, i - 1) \in Seq(S)
      /\ Len(SubSeq(s, 1, i - 1)) = i - 1
      /\ \A k \in 1..(i - 1) : SubSeq(s, 1, i - 1)[k] = s[k]
  BY SubSeqProperties
<1>2. /\ SubSeq(s, i + 1, Len(s)) \in Seq(S)
      /\ Len(SubSeq(s, i + 1, Len(s))) = Len(s) - i
      /\ \A k \in 1..(Len(s) - i) : SubSeq(s, i + 1, Len(s))[k] = s[i + k]
  BY SubSeqProperties
<1>3. PICK a : a = SubSeq(s, 1, i - 1)
  OBVIOUS
<1>4. PICK b : b = SubSeq(s, i + 1, Len(s))
  OBVIOUS
<1>5. RemoveAt(s, i) = a \o b
  BY <1>3, <1>4 DEF RemoveAt
<1>6. a \in Seq(S) /\ Len(a) = i - 1 /\ \A k \in 1..(i - 1) : a[k] = s[k]
  BY <1>1, <1>3, Zenon
<1>7. /\ b \in Seq(S) /\ Len(b) = Len(s) - i
      /\ \A k \in 1..(Len(s) - i) : b[k] = s[i + k]
  BY <1>2, <1>4, Zenon
<1>8. Len(s) \in Nat /\ Len(a) + Len(b) = Len(s) - 1
  BY <1>6, <1>7, LenProperties
<1>9. /\ a \o b \in Seq(S)
      /\ Len(a \o b) = Len(s) - 1
      /\ \A k \in 1..(Len(s) - 1) :
            (a \o b)[k] = IF k <= Len(a) THEN a[k] ELSE b[k - Len(a)]
  <2>1. /\ a \o b \in Seq(S)
        /\ Len(a \o b) = Len(a) + Len(b)
        /\ \A k \in 1..(Len(a) + Len(b)) :
              (a \o b)[k] = IF k <= Len(a) THEN a[k] ELSE b[k - Len(a)]
    BY <1>6, <1>7, ConcatProperties, Zenon
  <2> QED BY <1>8, <2>1, Zenon
<1>10. ASSUME NEW k \in 1..(Len(s) - 1), ~(k < i) PROVE (a \o b)[k] = s[k + 1]
  <2>1. k - Len(a) \in 1..(Len(s) - i) /\ i + (k - Len(a)) = k + 1 /\ ~(k <= Len(a))
    BY <1>6, <1>8, <1>10
  <2>2. (a \o b)[k] = b[k - Len(a)]
    BY <1>9, <2>1
  <2> QED BY <1>7, <2>1, <2>2
<1>11. ASSUME NEW k \in 1..(Len(s) - 1), k < i PROVE (a \o b)[k] = s[k]
  BY <1>6, <1>8, <1>9, <1>11
<1>12. \A k \in 1..(Len(s) - 1) : (a \o b)[k] = IF k < i THEN s[k] ELSE s[k + 1]
  BY <1>10, <1>11
<1> QED BY <1>5, <1>9, <1>12, Zenon

LEMMA LeavesFacts ==
    ASSUME waiters \in Seq(Threads), ListedOnce,
           NEW i \in 1..Len(waiters), Leaves(i)
    PROVE  /\ waiters' \in Seq(Threads)
           /\ ListedOnce'
           /\ \A t \in Threads : IsWaiting(t)' <=> IsWaiting(t) /\ t # waiters[i]
<1>1. /\ waiters' \in Seq(Threads)
      /\ Len(waiters') = Len(waiters) - 1
      /\ \A k \in 1..(Len(waiters) - 1) :
            waiters'[k] = IF k < i THEN waiters[k] ELSE waiters[k + 1]
  BY RemoveAtFacts DEF Leaves
<1>2. ListedOnce'
  BY <1>1, SMTT(30) DEF ListedOnce
<1>3. ASSUME NEW t \in Threads PROVE IsWaiting(t)' <=> IsWaiting(t) /\ t # waiters[i]
  <2>1. ASSUME NEW k \in 1..Len(waiters'), waiters'[k] = t
        PROVE  IsWaiting(t) /\ t # waiters[i]
    BY <1>1, <2>1 DEF IsWaiting, ListedOnce
  <2>2. ASSUME NEW k \in 1..Len(waiters), waiters[k] = t, t # waiters[i]
        PROVE  IsWaiting(t)'
    <3>1. CASE k < i
      BY <1>1, <2>2, <3>1, SMTT(30) DEF IsWaiting
    <3>2. CASE k > i
      <4>1. k - 1 \in 1..Len(waiters') /\ waiters'[k - 1] = t
        BY <1>1, <2>2, <3>2
      <4> QED BY <4>1 DEF IsWaiting
    <3> QED BY <2>2, <3>1, <3>2
  <2> QED BY <2>1, <2>2 DEF IsWaiting
<1> QED BY <1>1, <1>2, <1>3

LEMMA InitIInv == Init => IInv
  BY MutexAssumption
  DEF Init, IInv, TypeOK, ListedOnce, Owned, Balanced, WaitsForAnother, IsWaiting

LEMMA MovedFirst ==
    ASSUME waiters \in Seq(Threads), ListedOnce, NEW i \in 1..Len(waiters),
           MovesToFront(i)
    PROVE  /\ waiters' \in Seq(Threads)
           /\ ListedOnce'
           /\ \A t \in Threads : IsWaiting(t)' => IsWaiting(t)
<1> DEFINE from(k) == IF k = 1 THEN i ELSE IF k <= i THEN k - 1 ELSE k
<1>1. \A k \in 1..Len(waiters) : from(k) \in 1..Len(waiters)
  OBVIOUS
<1>2. /\ waiters' \in Seq(Threads) /\ Len(waiters') = Len(waiters)
      /\ \A k \in 1..Len(waiters) : waiters'[k] = waiters[from(k)]
  BY <1>1 DEF MovesToFront
<1>3. ASSUME NEW k \in 1..Len(waiters), NEW m \in 1..Len(waiters), from(k) = from(m)
      PROVE  k = m
  BY <1>3
<1> HIDE DEF from
<1>4. ListedOnce'
  BY <1>1, <1>2, <1>3, SMTT(30) DEF ListedOnce
<1>5. ASSUME NEW t \in Threads, IsWaiting(t)' PROVE IsWaiting(t)
  BY <1>1, <1>2, <1>5 DEF IsWaiting
<1> QED BY <1>2, <1>4, <1>5

LEMMA HandOverFacts ==
    ASSUME IInv, NEW d \in [Threads -> 0..MaxDepth],
           \A t \in Threads : d[t] = 0, HandOver(d)
    PROVE  /\ owner' \in Threads \cup {Nobody} /\ count' \in 0..MaxDepth
           /\ depth' \in [Threads -> 0..MaxDepth] /\ waiters' \in Seq(Threads)
           /\ ListedOnce' /\ Owned' /\ Balanced' /\ WaitsForAnother'
<1> USE MutexAssumption DEF IInv, TypeOK
<1>1. CASE waiters = <<>> /\ owner' = Nobody /\ count' = 0 /\ depth' = d /\ UNCHANGED waiters
  BY <1>1 DEF ListedOnce, Owned, Balanced, WaitsForAnother, IsWaiting
<1>2. ASSUME NEW i \in 1..Len(waiters), Leaves(i), owner' = waiters[i], count' = 1,
             depth' = [d EXCEPT ![waiters[i]] = @ + 1]
      PROVE  /\ owner' \in Threads \cup {Nobody} /\ count' \in 0..MaxDepth
             /\ depth' \in [Threads -> 0..MaxDepth] /\ waiters' \in Seq(Threads)
             /\ ListedOnce' /\ Owned' /\ Balanced' /\ WaitsForAnother'
  <2>1. waiters[i] \in Threads
    OBVIOUS
  <2>2. waiters' \in Seq(Threads) /\ ListedOnce'
        /\ \A t \in Threads : IsWaiting(t)' <=> IsWaiting(t) /\ t # waiters[i]
    BY <1>2, LeavesFacts
  <2>3. WaitsForAnother'
    BY <1>2, <2>1, <2>2 DEF WaitsForAnother
  <2> QED BY <1>2, <2>1, <2>2, <2>3, SMTT(30) DEF Owned, Balanced
<1> QED BY <1>1, <1>2 DEF HandOver

LEMMA NextIInv == ASSUME GuardsWait, IInv, [Next]_vars PROVE IInv'
<1> USE MutexAssumption DEF IInv, TypeOK
<1>1. ASSUME NEW t \in Threads, NEW h \in {"guard", "checked"}, Lock(t, h) PROVE IInv'
  <2>1. CASE owner \in {Nobody, t}
    <3>1. /\ owner' = t /\ count' = count + 1 /\ depth' = [depth EXCEPT ![t] = @ + 1]
          /\ UNCHANGED <<exists, waiters, how>>
      BY <1>1, <2>1 DEF Lock
    <3>2. \A u \in Threads : ~(IsWaiting(u) /\ u = t)
      BY <1>1 DEF Lock
    <3>3. \A u \in Threads : IsWaiting(u)' <=> IsWaiting(u)
      BY <3>1 DEF IsWaiting
    <3>4. count + 1 \in 1..MaxDepth
      BY <1>1, <2>1 DEF Lock, Balanced, Owned
    <3>5. depth[t] = count
      BY <2>1 DEF Balanced, Owned
    <3>6. TypeOK' /\ Owned'
      BY <3>1, <3>4, <3>5 DEF Owned
    <3>7. ListedOnce' /\ WaitsForAnother'
      BY <3>1, <3>2, <3>3 DEF ListedOnce, WaitsForAnother
    <3>8. Balanced'
      BY <2>1, <3>1, <3>5 DEF Balanced
    <3> QED BY <3>6, <3>7, <3>8
  <2>2. CASE owner \notin {Nobody, t}
    <3>1. /\ waiters' = Append(waiters, t) /\ how' = [how EXCEPT ![t] = h]
          /\ UNCHANGED <<exists, owner, count, depth>>
      BY <1>1, <2>2 DEF Lock
    <3>2. \A i \in 1..Len(waiters) : waiters[i] # t
      BY <1>1 DEF Lock, IsWaiting
    <3>3. waiters' \in Seq(Threads) /\ ListedOnce'
      BY <3>1, <3>2, SMTT(30) DEF ListedOnce
    <3>4. \A u \in Threads : IsWaiting(u)' => IsWaiting(u) \/ u = t
      BY <3>1, SMTT(30) DEF IsWaiting
    <3> QED BY <2>2, <3>1, <3>3, <3>4 DEF Owned, Balanced, WaitsForAnother
  <2> QED BY <2>1, <2>2
<1>2. ASSUME NEW t \in Threads, WaitEnds(t) PROVE IInv'
  <2>1. PICK i \in 1..Len(waiters) : waiters[i] = t /\ Leaves(i)
    BY <1>2 DEF WaitEnds
  <2>2. waiters' \in Seq(Threads) /\ ListedOnce'
        /\ \A u \in Threads : IsWaiting(u)' <=> IsWaiting(u) /\ u # waiters[i]
    BY <2>1, LeavesFacts
  <2>3. UNCHANGED <<exists, owner, count, how, depth>>
    BY <1>2 DEF WaitEnds, GuardsWait
  <2> QED BY <2>2, <2>3 DEF Owned, Balanced, WaitsForAnother
<1>3. ASSUME NEW t \in Threads, Unlock(t) PROVE IInv'
  <2>1. owner = t /\ UNCHANGED <<exists, how>>
    BY <1>3 DEF Unlock, Balanced
  <2>2. CASE count = 1
    <3>1. HandOver([depth EXCEPT ![t] = @ - 1])
      BY <1>3, <2>1, <2>2 DEF Unlock
    <3>2. /\ [depth EXCEPT ![t] = @ - 1] \in [Threads -> 0..MaxDepth]
          /\ \A u \in Threads : [depth EXCEPT ![t] = @ - 1][u] = 0
      BY <2>1, <2>2 DEF Balanced
    <3> QED BY <2>1, <3>1, <3>2, HandOverFacts
  <2>3. CASE count > 1
    <3>1. /\ count' = count - 1 /\ depth' = [depth EXCEPT ![t] = @ - 1]
          /\ UNCHANGED <<owner, waiters>>
      BY <1>3, <2>1, <2>3 DEF Unlock
    <3>2. count - 1 \in 1..MaxDepth /\ depth[t] = count
      BY <2>1, <2>3 DEF Balanced
    <3>3. ListedOnce' /\ WaitsForAnother'
      BY <2>1, <3>1 DEF ListedOnce, WaitsForAnother, IsWaiting
    <3>4. Balanced'
      BY <2>1, <3>1, <3>2 DEF Balanced
    <3>5. TypeOK' /\ Owned'
      BY <2>1, <2>3, <3>1, <3>2 DEF Owned
    <3> QED BY <3>3, <3>4, <3>5
  <2> QED BY <2>1, <2>2, <2>3 DEF Owned
<1>4. CASE Prioritise
  <2>1. PICK i \in 1..Len(waiters) : MovesToFront(i)
    BY <1>4 DEF Prioritise
  <2>2. waiters' \in Seq(Threads) /\ ListedOnce' /\ \A u \in Threads : IsWaiting(u)' => IsWaiting(u)
    BY <2>1, MovedFirst
  <2>6. UNCHANGED <<exists, owner, count, how, depth>>
    BY <1>4 DEF Prioritise
  <2> QED BY <2>2, <2>6 DEF Owned, Balanced, WaitsForAnother
<1>5. ASSUME NEW t \in Threads, Terminate(t) PROVE IInv'
  <2>1. CASE owner = t
    <3>1. HandOver([depth EXCEPT ![t] = 0]) /\ UNCHANGED <<exists, how>>
      BY <1>5, <2>1 DEF Terminate
    <3>2. /\ [depth EXCEPT ![t] = 0] \in [Threads -> 0..MaxDepth]
          /\ \A u \in Threads : [depth EXCEPT ![t] = 0][u] = 0
      BY <2>1 DEF Balanced
    <3> QED BY <3>1, <3>2, HandOverFacts
  <2>2. CASE owner # t
    <3>1. depth' = depth /\ UNCHANGED <<exists, owner, count, how>>
      BY <1>5, <2>2 DEF Terminate, Balanced
    <3>2. CASE UNCHANGED waiters
      BY <3>1, <3>2 DEF ListedOnce, Owned, Balanced, WaitsForAnother, IsWaiting
    <3>3. ASSUME NEW i \in 1..Len(waiters), Leaves(i) PROVE IInv'
      <4>1. waiters' \in Seq(Threads) /\ ListedOnce'
            /\ \A u \in Threads : IsWaiting(u)' <=> IsWaiting(u) /\ u # waiters[i]
        BY <3>3, LeavesFacts
      <4> QED BY <3>1, <4>1 DEF Owned, Balanced, WaitsForAnother
    <3> QED BY <1>5, <2>2, <3>2, <3>3 DEF Terminate
  <2> QED BY <2>1, <2>2
<1>6. CASE Destroy
  <2>1. waiters' = <<>> /\ owner' = Nobody /\ count' = 0 /\ UNCHANGED <<how, depth>>
        /\ exists' = FALSE /\ \A t \in Threads : depth[t] = 0
    BY <1>6 DEF Destroy
  <2>2. ListedOnce' /\ WaitsForAnother' /\ waiters' \in Seq(Threads)
    BY <2>1 DEF ListedOnce, WaitsForAnother, IsWaiting
  <2> QED BY <2>1, <2>2 DEF Owned, Balanced
<1>7. CASE UNCHANGED vars
  BY <1>7 DEF vars, ListedOnce, Owned, Balanced, WaitsForAnother, IsWaiting
<1> QED BY <1>1, <1>2, <1>3, <1>4, <1>5, <1>6, <1>7 DEF Next

(* Every variable keeps its type; the ownership count stays within the      *)
(* nesting.                                                                 *)
THEOREM TypeCorrect == ASSUME GuardsWait PROVE Spec => []TypeOK
<1>1. IInv => TypeOK BY DEF IInv
<1> QED BY <1>1, InitIInv, NextIInv, PTL DEF Spec

(* Threads never overlap inside sections of one mutex, nested or not.       *)
THEOREM SectionsExclude == ASSUME GuardsWait PROVE Spec => []Exclusion
<1>1. IInv => Exclusion
  BY DEF IInv, TypeOK, Balanced, Exclusion, Inside
<1> QED BY <1>1, InitIInv, NextIInv, PTL DEF Spec

(* Sections, whether they end by unlock() or with their thread, and the     *)
(* kernel's ownership count go together.                                    *)
THEOREM OwnershipBalanced == ASSUME GuardsWait PROVE Spec => []Balanced
<1>1. IInv => Balanced BY DEF IInv
<1> QED BY <1>1, InitIInv, NextIInv, PTL DEF Spec

(* No thread waits for a free mutex or for itself.                          *)
THEOREM NoIdleMutex == ASSUME GuardsWait PROVE Spec => []WaitsForAnother
<1>1. IInv => WaitsForAnother BY DEF IInv
<1> QED BY <1>1, InitIInv, NextIInv, PTL DEF Spec
=============================================================================
