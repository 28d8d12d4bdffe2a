---------------------------- MODULE QueueProofs ----------------------------
(***************************************************************************)
(* Who is suspended on a Queue, for any number of contexts and any         *)
(* capacity.                                                               *)
(***************************************************************************)
EXTENDS Queue, SequenceTheorems, FiniteSetTheorems, TLAPS

\* What a context sends is known only as far as the storage needs it.
Slots == Messages \cup {NoMessage}

\* Thread t has something to wait for.
MustWait(t) == IF doing[t] = "receive" THEN stored = <<>> ELSE Len(stored) = Capacity

IInv ==
    /\ stored \in Seq(Slots) /\ Len(stored) <= Capacity
    /\ sending \in [Contexts -> Slots] /\ sent \in 0..MaxSent
    /\ doing \in [Threads -> {"receive", "send", "sendFront"}]
    /\ waiters \in Seq({t \in Threads : MustWait(t)})

LEMMA InitIInv == Init => IInv
  BY QueueAssumption DEF Init, IInv, Slots, Contexts

LEMMA MessageTyped ==
    ASSUME IInv, NEW c \in Senders, NEW h \in {"send", "sendFront"}, NEW e, Sends(c, h, e)
    PROVE  /\ Message(c, h) \in Slots
           /\ sending' \in [Contexts -> Slots] /\ sent' \in 0..MaxSent
<1>1. Message(c, h) \in Slots
  BY QueueAssumption DEF Message, Messages, Slots, Sends, IInv
<1> QED BY <1>1, QueueAssumption DEF Sends, IInv

LEMMA RemoveAtTyped ==
    ASSUME NEW S, NEW s \in Seq(S), NEW i \in 1..Len(s)
    PROVE  RemoveAt(s, i) \in Seq(S)
<1>1. SubSeq(s, 1, i - 1) \in Seq(S) /\ SubSeq(s, i + 1, Len(s)) \in Seq(S)
  BY SubSeqProperties
<1> QED BY <1>1, ConcatProperties DEF RemoveAt

\* Threads that do not begin to wait keep waiting for the same.
LEMMA StillWaiting ==
    ASSUME IInv,
           waiters' \in Seq({t \in Threads : MustWait(t)}), UNCHANGED doing,
           \/ UNCHANGED stored
           \/ stored' \in Seq(Slots) /\ Len(stored') = Len(stored) /\ stored # <<>>,
           sending' \in [Contexts -> Slots] /\ sent' \in 0..MaxSent
    PROVE  IInv'
<1>1. \A t \in Threads : MustWait(t) => MustWait(t)'
  BY DEF MustWait, IInv
<1>2. {t \in Threads : MustWait(t)} \subseteq {t \in Threads : MustWait(t)'}
  BY <1>1
<1>3. waiters' \in Seq({t \in Threads : MustWait(t)'})
  BY <1>2
<1> QED BY <1>3 DEF IInv

LEMMA StillWaitingTyped ==
    ASSUME IInv
    PROVE  /\ sending \in [Contexts -> Slots] /\ sent \in 0..MaxSent
           /\ waiters \in Seq({t \in Threads : MustWait(t)})
  BY DEF IInv

\* Nobody waits: nothing but the types is left to show.
LEMMA NobodyWaits ==
    ASSUME waiters' = <<>>
    PROVE  waiters' \in Seq({t \in Threads : MustWait(t)'})
  OBVIOUS

LEMMA SendIInv ==
    ASSUME IInv, NEW c \in Senders, NEW h \in {"send", "sendFront"},
           Send(c, h)
    PROVE  IInv'
<1>1. CASE Store(c, h)
  <2>1. Message(c, h) \in Slots /\ sending' \in [Contexts -> Slots] /\ sent' \in 0..MaxSent
    BY <1>1, MessageTyped DEF Store
  <2> USE DEF IInv
  <2>2. stored' \in Seq(Slots) /\ Len(stored') = Len(stored) + 1
    <3>1. CASE h = "send"
      BY <1>1, <2>1, <3>1 DEF Store
    <3>2. CASE h # "send"
      BY <1>1, <2>1, <3>2 DEF Store
    <3> QED BY <3>1, <3>2
  <2>3. Len(stored') <= Capacity
    BY <1>1, <2>2, QueueAssumption DEF Store
  <2> QED BY <1>1, <2>1, <2>2, <2>3, NobodyWaits DEF Store
<1>2. CASE HandToReceiver(c, h)
  <2>1. sending' \in [Contexts -> Slots] /\ sent' \in 0..MaxSent
    BY <1>2, MessageTyped DEF HandToReceiver
  <2>2. waiters' = Tail(waiters) /\ Tail(waiters) \in Seq({t \in Threads : MustWait(t)})
    BY <1>2, StillWaitingTyped DEF HandToReceiver, Rest
  <2>3. UNCHANGED <<stored, doing>>
    BY <1>2 DEF HandToReceiver
  <2> QED BY <2>1, <2>2, <2>3, StillWaiting
<1>3. CASE Refuse(c, h)
  <2>1. sending' \in [Contexts -> Slots] /\ sent' \in 0..MaxSent
    BY <1>3, MessageTyped DEF Refuse
  <2>2. UNCHANGED <<stored, waiters, doing>>
    BY <1>3 DEF Refuse
  <2> QED BY <2>1, <2>2, StillWaiting, StillWaitingTyped
<1>4. CASE c \in Threads /\ SuspendSender(c, h)
  <2> USE DEF IInv
  <2>1. sending' \in [Contexts -> Slots] /\ sent' \in 0..MaxSent
    BY <1>4, MessageTyped DEF SuspendSender
  <2>2. Len(stored) = Capacity /\ stored' = stored /\ doing' = [doing EXCEPT ![c] = h]
    BY <1>4 DEF SuspendSender
  <2>3. \A i \in 1..Len(waiters) : waiters[i] # c
    BY <1>4 DEF SuspendSender, Sends, Runs, IsWaiting
  <2> DEFINE S == {t \in Threads : MustWait(t)'}
  <2>4. MustWait(c)' /\ \A t \in Threads \ {c} : MustWait(t)' <=> MustWait(t)
    BY <1>4, <2>2 DEF MustWait
  <2>5. c \in S /\ \A i \in 1..Len(waiters) : waiters[i] \in S
    BY <1>4, <2>3, <2>4
  <2> HIDE DEF S
  <2>6. waiters \in Seq(S)
    BY <2>5
  <2>7. waiters' \in Seq(S)
    <3>1. CASE h = "send"
      BY <1>4, <2>5, <2>6, <3>1 DEF SuspendSender
    <3>2. CASE h # "send"
      BY <1>4, <2>5, <2>6, <3>2 DEF SuspendSender
    <3> QED BY <3>1, <3>2
  <2> QED BY <1>4, <2>1, <2>2, <2>7 DEF S
<1> QED BY <1>1, <1>2, <1>3, <1>4 DEF Send

LEMMA ReceiveIInv == ASSUME IInv, NEW c \in Contexts, Receive(c) PROVE IInv'
<1>1. stored # <<>> /\ UNCHANGED <<doing, sending, sent>>
  BY DEF Receive
<1>2. CASE Take
  <2> USE DEF IInv
  <2>1. stored' \in Seq(Slots) /\ Len(stored') = Len(stored) - 1
    BY <1>1, <1>2 DEF Take
  <2> QED BY <1>1, <1>2, <2>1, QueueAssumption, NobodyWaits DEF Take
<1>3. CASE Resume
  <2>1. /\ First \in Threads /\ waiters' = Tail(waiters)
        /\ Tail(waiters) \in Seq({t \in Threads : MustWait(t)})
    BY <1>3, StillWaitingTyped DEF Resume, First, Rest
  <2>2. CASE TakeOffered
    <3>1. UNCHANGED <<stored, doing, sending, sent>>
      BY <1>1, <2>2 DEF TakeOffered
    <3> QED BY <2>1, <3>1, StillWaiting, StillWaitingTyped
  <2>3. CASE TakeAndAdmit
    <3>1. sending[First] \in Slots
      BY <2>1, StillWaitingTyped DEF Contexts
    <3>2. stored' \in Seq(Slots) /\ Len(stored') = Len(stored)
      BY <1>1, <2>3, <3>1 DEF TakeAndAdmit, IInv
    <3> QED BY <1>1, <2>1, <3>2, StillWaiting, StillWaitingTyped
  <2>4. CASE Take
    BY <1>2, <2>4
  <2> QED BY <2>2, <2>3, <2>4 DEF Receive
<1> QED BY <1>2, <1>3 DEF Receive, TakeOffered, TakeAndAdmit

LEMMA NextIInv == ASSUME IInv, [Next]_vars PROVE IInv'
<1>1. ASSUME NEW c \in Senders, Send(c, "send") \/ Send(c, "sendFront") PROVE IInv'
  BY <1>1, SendIInv
<1>2. ASSUME NEW c \in Contexts, Receive(c) PROVE IInv'
  BY <1>2, ReceiveIInv
<1>3. ASSUME NEW c \in Contexts, NotifyEnds(c) PROVE IInv'
  <2>1. UNCHANGED <<stored, waiters, doing, sending, sent>>
    BY <1>3 DEF NotifyEnds
  <2> QED BY <2>1, StillWaiting, StillWaitingTyped
<1>4. ASSUME NEW t \in Threads, SuspendReceiver(t) PROVE IInv'
  <2> USE DEF IInv
  <2>1. /\ stored = <<>> /\ doing' = [doing EXCEPT ![t] = "receive"]
        /\ waiters' = Append(waiters, t) /\ UNCHANGED <<stored, sending, sent>>
    BY <1>4 DEF SuspendReceiver
  <2>2. \A i \in 1..Len(waiters) : waiters[i] # t
    BY <1>4 DEF SuspendReceiver, Runs, IsWaiting
  <2> DEFINE S == {u \in Threads : MustWait(u)'}
  <2>3. MustWait(t)' /\ \A u \in Threads \ {t} : MustWait(u)' <=> MustWait(u)
    BY <2>1 DEF MustWait
  <2>4. t \in S /\ \A i \in 1..Len(waiters) : waiters[i] \in S
    BY <2>2, <2>3
  <2> HIDE DEF S
  <2>5. waiters' \in Seq(S)
    BY <2>1, <2>4
  <2> QED BY <2>1, <2>5 DEF S
<1>5. ASSUME NEW t \in Threads, NEW error, GiveUp(t, error) PROVE IInv'
  <2>1. PICK i \in 1..Len(waiters) : waiters' = RemoveAt(waiters, i)
    BY <1>5 DEF GiveUp
  <2>2. RemoveAt(waiters, i) \in Seq({u \in Threads : MustWait(u)})
    BY RemoveAtTyped DEF IInv
  <2>3. UNCHANGED <<stored, doing, sending, sent>>
    BY <1>5 DEF GiveUp
  <2> QED BY <2>1, <2>2, <2>3, StillWaiting, StillWaitingTyped
<1>6. CASE Prioritise
  <2>1. PICK i \in 1..Len(waiters) : waiters' = <<waiters[i]>> \o RemoveAt(waiters, i)
    BY <1>6 DEF Prioritise
  <2> DEFINE W == {u \in Threads : MustWait(u)}
  <2>2. RemoveAt(waiters, i) \in Seq(W) /\ waiters[i] \in W
    BY RemoveAtTyped DEF IInv
  <2> HIDE DEF W
  <2>3. <<waiters[i]>> \o RemoveAt(waiters, i) \in Seq(W)
    BY <2>2
  <2>4. UNCHANGED <<stored, doing, sending, sent>>
    BY <1>6 DEF Prioritise
  <2> QED BY <2>1, <2>3, <2>4, StillWaiting, StillWaitingTyped DEF W
<1>7. CASE Flush
  BY <1>7, QueueAssumption, NobodyWaits DEF Flush, IInv
<1>8. CASE Destroy
  BY <1>8, QueueAssumption, NobodyWaits DEF Destroy, IInv
<1>9. CASE UNCHANGED vars
  <2>1. UNCHANGED <<stored, waiters, doing, sending, sent>>
    BY <1>9 DEF vars
  <2> QED BY <2>1, StillWaiting, StillWaitingTyped
<1> QED BY <1>1, <1>2, <1>3, <1>4, <1>5, <1>6, <1>7, <1>8, <1>9, Zenon DEF Next

(* No receive waits while a message is stored, no send while there is room. *)
THEOREM NobodyWaitsIdly == Spec => []NoIdleWait
<1>1. IInv => NoIdleWait
  BY DEF IInv, NoIdleWait, MustWait
<1> QED BY <1>1, InitIInv, NextIInv, PTL DEF Spec

(* The storage is never overrun.                                            *)
THEOREM StorageSuffices == Spec => [](Len(stored) <= Capacity)
<1>1. IInv => Len(stored) <= Capacity BY DEF IInv
<1> QED BY <1>1, InitIInv, NextIInv, PTL DEF Spec
-----------------------------------------------------------------------------
(***************************************************************************)
(* What became of the messages.  The last message of a context is its      *)
(* latest; it is under way while its context is suspended, and every       *)
(* message carries a number of its own.                                    *)
(***************************************************************************)
ListedOnce == \A i, k \in 1..Len(waiters) : waiters[i] = waiters[k] => i = k

OwnMessages ==
    \A c \in Contexts : sending[c] # NoMessage =>
        sending[c].from = c /\ sending[c].number \in 1..sent

UnderWay ==
    \A t \in WaitingSenders :
        answer[t] = "none" /\ sending[t] # NoMessage /\ sending[t].how = doing[t]

Numbered == \A m \in Accepted : m.from \in Senders /\ m.number \in 1..sent

Latest == \A m \in Accepted : m = sending[m.from] \/ m.number < sending[m.from].number

HInv ==
    /\ answer \in [Contexts -> Errors]
    /\ OwnMessages /\ UnderWay /\ Numbered /\ Latest
    /\ SendAnswersTruly

\* A step that leaves the messages where they are.
LEMMA KeptHInv ==
    ASSUME IInv, HInv,
           Accepted' = Accepted, UNCHANGED <<sending, sent>>,
           WaitingSenders' \subseteq WaitingSenders, UNCHANGED doing,
           answer' \in [Contexts -> Errors],
           \A c \in Contexts :
              \/ answer'[c] = answer[c]
              \/ c \in WaitingSenders \ WaitingSenders' /\ answer'[c] # "success"
    PROVE  HInv'
<1> USE DEF HInv
<1>1. WaitingSenders \subseteq Contexts
  BY DEF WaitingSenders, Contexts
<1>2. OwnMessages' /\ Numbered' /\ Latest'
  BY DEF OwnMessages, Numbered, Latest
<1>3. UnderWay'
  BY <1>1 DEF UnderWay
<1>4. SendAnswersTruly'
  BY DEF SendAnswersTruly, UnderWay
<1> QED BY <1>2, <1>3, <1>4

\* A step that takes the messages of suspended senders W.
LEMMA AdmittedHInv ==
    ASSUME IInv, HInv, NEW W \in SUBSET WaitingSenders,
           Accepted' = Accepted \cup {sending[t] : t \in W}, UNCHANGED <<sending, sent>>,
           WaitingSenders' \subseteq WaitingSenders \ W, UNCHANGED doing,
           answer' = [c \in Contexts |-> IF c \in W THEN "success" ELSE answer[c]]
    PROVE  HInv'
<1> USE DEF HInv
<1>1. WaitingSenders \subseteq Contexts
  BY DEF WaitingSenders, Contexts
<1>2. answer' \in [Contexts -> Errors]
  BY DEF Errors
<1>3. OwnMessages'
  BY DEF OwnMessages
<1>4. \A t \in W : sending[t] # NoMessage /\ sending[t].from = t /\ sending[t].number \in 1..sent
  BY <1>1 DEF UnderWay, OwnMessages
<1>5. \A t \in W : t \in Senders
  BY <1>1, <1>4 DEF IInv, Slots, Messages
<1>6. Numbered' /\ Latest'
  BY <1>4, <1>5 DEF Numbered, Latest
<1>7. UnderWay'
  BY <1>1 DEF UnderWay
<1>8. SendAnswersTruly'
  BY <1>1, <1>4 DEF SendAnswersTruly, OwnMessages
<1> QED BY <1>2, <1>3, <1>6, <1>7, <1>8

\* A step that sends a message, which is accepted if and only if the call succeeds.
LEMMA SentHInv ==
    ASSUME IInv, HInv, NEW c \in Senders, NEW h \in {"send", "sendFront"},
           NEW e \in Errors, Sends(c, h, e),
           Accepted' = Accepted \cup (IF e = "success" THEN {Message(c, h)} ELSE {}),
           WaitingSenders' \subseteq WaitingSenders \cup (IF e = "none" THEN {c} ELSE {}),
           c \notin WaitingSenders,
           \A t \in WaitingSenders' : doing'[t] = IF t = c THEN h ELSE doing[t]
    PROVE  HInv'
<1> USE DEF HInv
<1>1. c \in Contexts /\ WaitingSenders \subseteq Contexts
  BY QueueAssumption DEF WaitingSenders, Contexts
<1>2. /\ Message(c, h).from = c /\ Message(c, h).number = sent + 1
      /\ Message(c, h) # NoMessage /\ Message(c, h).how = h
  BY DEF Message, NoMessage, IInv
<1>3. /\ sent \in Nat /\ sent' = sent + 1
      /\ sending' = [sending EXCEPT ![c] = Message(c, h)]
      /\ answer' = [answer EXCEPT ![c] = e]
  BY DEF Sends, IInv
<1>4. \A m \in Accepted : m # Message(c, h)
  BY <1>2, <1>3 DEF Numbered
<1>5. OwnMessages'
  BY <1>1, <1>2, <1>3 DEF OwnMessages, IInv
<1>6. Numbered'
  BY <1>2, <1>3 DEF Numbered
<1>7. Latest'
  <2>1. ASSUME NEW m \in Accepted
        PROVE  m = sending'[m.from] \/ m.number < sending'[m.from].number
    BY <2>1, <1>1, <1>2, <1>3, QueueAssumption DEF Numbered, Latest, IInv, Contexts
  <2>2. Message(c, h) = sending'[Message(c, h).from]
    BY <1>1, <1>2, <1>3 DEF IInv
  <2> QED BY <2>1, <2>2 DEF Latest
<1>8. UnderWay'
  BY <1>1, <1>2, <1>3 DEF UnderWay, IInv
<1>9. SendAnswersTruly'
  <2> SUFFICES ASSUME NEW d \in Contexts, sending'[d] # NoMessage
               PROVE  answer'[d] = "success" <=> sending'[d] \in Accepted'
    BY DEF SendAnswersTruly
  <2>1. CASE d = c
    BY <2>1, <1>1, <1>3, <1>4 DEF IInv
  <2>2. CASE d # c
    <3>1. sending'[d] = sending[d] /\ answer'[d] = answer[d]
      BY <2>2, <1>1, <1>3 DEF IInv
    <3>2. sending[d] # Message(c, h)
      BY <2>2, <3>1, <1>2 DEF OwnMessages
    <3> QED BY <3>1, <3>2 DEF SendAnswersTruly
  <2> QED BY <2>1, <2>2
<1> QED BY <1>1, <1>3, <1>5, <1>6, <1>7, <1>8, <1>9

-----------------------------------------------------------------------------
(* Who is in a sequence, and whether nobody is there twice.                  *)
Has(w, t) == \E i \in 1..Len(w) : w[i] = t
Once(w) == \A i, k \in 1..Len(w) : w[i] = w[k] => i = k

LEMMA OnceTail ==
    ASSUME NEW S, NEW w \in Seq(S), Once(w), w # <<>>
    PROVE  Once(Tail(w)) /\ \A t : Has(Tail(w), t) <=> Has(w, t) /\ t # Head(w)
<1>1. /\ Tail(w) \in Seq(S) /\ Len(Tail(w)) = Len(w) - 1 /\ Len(w) \in Nat \ {0}
      /\ \A i \in 1..Len(w) - 1 : Tail(w)[i] = w[i + 1]
      /\ Head(w) = w[1]
  OBVIOUS
<1>2. Once(Tail(w))
  BY <1>1 DEF Once
<1>3. ASSUME NEW t, Has(Tail(w), t) PROVE Has(w, t) /\ t # Head(w)
  <2>1. PICK i \in 1..Len(w) - 1 : w[i + 1] = t
    BY <1>1, <1>3 DEF Has
  <2> QED BY <1>1, <2>1 DEF Has, Once
<1>4. ASSUME NEW t, Has(w, t), t # Head(w) PROVE Has(Tail(w), t)
  <2>1. PICK i \in 2..Len(w) : w[i] = t
    BY <1>1, <1>4 DEF Has
  <2>2. i - 1 \in 1..Len(w) - 1 /\ Tail(w)[i - 1] = t
    BY <1>1, <2>1
  <2> QED BY <1>1, <2>2 DEF Has
<1> QED BY <1>2, <1>3, <1>4

LEMMA OnceAppend ==
    ASSUME NEW S, NEW w \in Seq(S), Once(w), NEW t \in S, ~Has(w, t)
    PROVE  Once(Append(w, t)) /\ \A u : Has(Append(w, t), u) <=> Has(w, u) \/ u = t
<1>1. /\ Append(w, t) \in Seq(S) /\ Len(Append(w, t)) = Len(w) + 1 /\ Len(w) \in Nat
      /\ \A i \in 1..Len(w) + 1 : Append(w, t)[i] = IF i = Len(w) + 1 THEN t ELSE w[i]
  OBVIOUS
<1> QED BY <1>1 DEF Once, Has

LEMMA OnceCons ==
    ASSUME NEW S, NEW w \in Seq(S), Once(w), NEW t \in S, ~Has(w, t)
    PROVE  Once(<<t>> \o w) /\ \A u : Has(<<t>> \o w, u) <=> Has(w, u) \/ u = t
<1> DEFINE v == <<t>> \o w
<1>1. /\ v \in Seq(S) /\ Len(v) = Len(w) + 1 /\ Len(w) \in Nat
      /\ \A i \in 1..Len(w) + 1 : v[i] = IF i = 1 THEN t ELSE w[i - 1]
  OBVIOUS
<1> HIDE DEF v
<1>2. Once(v)
  <2> SUFFICES ASSUME NEW i \in 1..Len(v), NEW k \in 1..Len(v), v[i] = v[k] PROVE i = k
    BY DEF Once
  <2>1. ASSUME NEW j \in 2..Len(v) PROVE j - 1 \in 1..Len(w) /\ v[j] = w[j - 1] /\ v[j] # t
    BY <1>1 DEF Has
  <2>2. CASE i # 1 /\ k # 1
    <3>1. i \in 2..Len(v) /\ k \in 2..Len(v)
      BY <1>1, <2>2
    <3>2. i - 1 \in 1..Len(w) /\ k - 1 \in 1..Len(w) /\ w[i - 1] = w[k - 1]
      BY <2>1, <3>1
    <3>3. i - 1 = k - 1
      BY <3>2 DEF Once
    <3> QED BY <3>1, <3>3
  <2>3. CASE i = 1 \/ k = 1
    BY <1>1, <2>1, <2>3
  <2> QED BY <2>2, <2>3
<1>3. ASSUME NEW u, Has(v, u) PROVE Has(w, u) \/ u = t
  BY <1>1, <1>3 DEF Has
<1>4. ASSUME NEW u, Has(w, u) PROVE Has(v, u)
  <2>1. PICK i \in 1..Len(w) : w[i] = u
    BY <1>4 DEF Has
  <2>2. i + 1 \in 1..Len(v) /\ v[i + 1] = u
    BY <1>1, <2>1
  <2> QED BY <2>2 DEF Has
<1>5. Has(v, t)
  BY <1>1 DEF Has
<1> QED BY <1>2, <1>3, <1>4, <1>5 DEF v

LEMMA OnceRemoveAt ==
    ASSUME NEW S, NEW w \in Seq(S), Once(w), NEW i \in 1..Len(w)
    PROVE  /\ RemoveAt(w, i) \in Seq(S) /\ Once(RemoveAt(w, i))
           /\ \A t : Has(RemoveAt(w, i), t) <=> Has(w, t) /\ t # w[i]
<1> DEFINE a == SubSeq(w, 1, i - 1)
           b == SubSeq(w, i + 1, Len(w))
           v == a \o b
<1>1. /\ a \in Seq(S) /\ Len(a) = i - 1 /\ \A k \in 1..i - 1 : a[k] = w[k]
      /\ b \in Seq(S) /\ Len(b) = Len(w) - i /\ \A k \in 1..Len(w) - i : b[k] = w[i + k]
  BY SubSeqProperties
<1> HIDE DEF a, b
<1>2. /\ v \in Seq(S) /\ Len(v) = Len(w) - 1 /\ Len(w) \in Nat
      /\ \A k \in 1..Len(v) : v[k] = IF k < i THEN w[k] ELSE w[k + 1]
  <2>1. /\ v \in Seq(S) /\ Len(v) = Len(a) + Len(b)
        /\ \A k \in 1..Len(a) + Len(b) : v[k] = IF k <= Len(a) THEN a[k] ELSE b[k - Len(a)]
    BY <1>1, ConcatProperties
  <2> HIDE DEF v
  <2>2. Len(w) \in Nat
    OBVIOUS
  <2>3. ASSUME NEW k \in 1..Len(v) PROVE v[k] = IF k < i THEN w[k] ELSE w[k + 1]
    <3>1. CASE k < i
      BY <1>1, <2>1, <2>2, <3>1
    <3>2. CASE k >= i
      <4>1. k - (i - 1) \in 1..Len(w) - i /\ i + (k - (i - 1)) = k + 1
        BY <1>1, <2>1, <2>2, <3>2
      <4>2. v[k] = b[k - (i - 1)] /\ b[k - (i - 1)] = w[i + (k - (i - 1))]
        BY <1>1, <2>1, <3>2, <4>1
      <4> QED BY <3>2, <4>1, <4>2
    <3> QED BY <3>1, <3>2, <2>1, <2>2
  <2> QED BY <1>1, <2>1, <2>2, <2>3
<1> HIDE DEF v
<1>3. Once(v)
  <2> SUFFICES ASSUME NEW j \in 1..Len(v), NEW k \in 1..Len(v), v[j] = v[k] PROVE j = k
    BY DEF Once
  <2> DEFINE f(n) == IF n < i THEN n ELSE n + 1
  <2>1. f(j) \in 1..Len(w) /\ f(k) \in 1..Len(w) /\ w[f(j)] = w[f(k)]
    BY <1>2
  <2>2. f(j) = f(k)
    <3> HIDE DEF f
    <3> QED BY <2>1 DEF Once
  <2> QED BY <1>2, <2>2
<1>4. ASSUME NEW t, Has(v, t) PROVE Has(w, t) /\ t # w[i]
  <2>1. PICK k \in 1..Len(v) : v[k] = t
    BY <1>4 DEF Has
  <2> QED BY <1>2, <2>1 DEF Has, Once
<1>5. ASSUME NEW t, Has(w, t), t # w[i] PROVE Has(v, t)
  <2>1. PICK k \in 1..Len(w) : w[k] = t
    BY <1>5 DEF Has
  <2>2. CASE k < i
    BY <1>2, <2>1, <2>2 DEF Has
  <2>3. CASE k > i
    <3>1. k - 1 \in 1..Len(v) /\ v[k - 1] = t
      BY <1>2, <2>1, <2>3
    <3> QED BY <3>1 DEF Has
  <2> QED BY <1>5, <2>1, <2>2, <2>3
<1> QED BY <1>2, <1>3, <1>4, <1>5 DEF v, a, b, RemoveAt

(* What is in a sequence of messages.                                        *)
LEMMA ToSetAppend ==
    ASSUME NEW S, NEW s \in Seq(S), NEW m \in S
    PROVE  Append(s, m) \in Seq(S) /\ ToSet(Append(s, m)) = ToSet(s) \cup {m}
<1>1. ToSet(Append(s, m)) \subseteq ToSet(s) \cup {m}
  BY DEF ToSet
<1>2. ToSet(s) \subseteq ToSet(Append(s, m))
  BY DEF ToSet
<1>3. Append(s, m)[Len(s) + 1] = m /\ Len(s) + 1 \in DOMAIN Append(s, m)
  OBVIOUS
<1> QED BY <1>1, <1>2, <1>3 DEF ToSet

LEMMA ToSetHead ==
    ASSUME NEW S, NEW s \in Seq(S), s # <<>>
    PROVE  ToSet(s) = {Head(s)} \cup ToSet(Tail(s)) /\ Head(s) \in S
<1> DEFINE v == Tail(s)
<1>1. /\ DOMAIN v = 1..Len(s) - 1 /\ DOMAIN s = 1..Len(s) /\ Len(s) \in Nat \ {0}
      /\ \A i \in 1..Len(s) - 1 : v[i] = s[i + 1]
      /\ Head(s) = s[1] /\ Head(s) \in S
  OBVIOUS
<1> HIDE DEF v
<1>2. ASSUME NEW k \in 2..Len(s) PROVE k - 1 \in DOMAIN v /\ v[k - 1] = s[k]
  BY <1>1
<1>3. ToSet(s) \subseteq {Head(s)} \cup ToSet(v)
  BY <1>1, <1>2, SMTT(30) DEF ToSet
<1>4. ToSet(v) \subseteq ToSet(s)
  BY <1>1 DEF ToSet
<1>5. Head(s) \in ToSet(s)
  BY <1>1 DEF ToSet
<1> QED BY <1>1, <1>3, <1>4, <1>5 DEF v

LEMMA ToSetConcat ==
    ASSUME NEW S, NEW a \in Seq(S), NEW b \in Seq(S)
    PROVE  ToSet(a \o b) = ToSet(a) \cup ToSet(b)
<1> DEFINE v == a \o b
<1>1. /\ DOMAIN v = 1..Len(a) + Len(b) /\ DOMAIN a = 1..Len(a) /\ DOMAIN b = 1..Len(b)
      /\ Len(a) \in Nat /\ Len(b) \in Nat
      /\ \A i \in 1..Len(a) + Len(b) : v[i] = IF i <= Len(a) THEN a[i] ELSE b[i - Len(a)]
  OBVIOUS
<1> HIDE DEF v
<1>2. ASSUME NEW i \in 1..Len(a) PROVE a[i] \in ToSet(v)
  BY <1>1 DEF ToSet
<1>3. ASSUME NEW i \in 1..Len(b) PROVE b[i] \in ToSet(v)
  <2>1. Len(a) + i \in DOMAIN v /\ v[Len(a) + i] = b[i]
    BY <1>1
  <2> QED BY <2>1 DEF ToSet
<1>4. ASSUME NEW i \in DOMAIN v PROVE v[i] \in ToSet(a) \cup ToSet(b)
  <2>1. CASE i <= Len(a)
    BY <1>1, <2>1 DEF ToSet
  <2>2. CASE i > Len(a)
    <3>1. i - Len(a) \in DOMAIN b /\ v[i] = b[i - Len(a)]
      BY <1>1, <2>2
    <3> QED BY <3>1 DEF ToSet
  <2> QED BY <1>1, <2>1, <2>2
<1>5. ToSet(a) \subseteq ToSet(v) /\ ToSet(b) \subseteq ToSet(v)
  BY <1>1, <1>2, <1>3 DEF ToSet
<1>6. ToSet(v) \subseteq ToSet(a) \cup ToSet(b)
  BY <1>4 DEF ToSet
<1> QED BY <1>5, <1>6 DEF v

-----------------------------------------------------------------------------
(***************************************************************************)
(* The answers of send()                                                   *)
(***************************************************************************)
QInv == IInv /\ HInv /\ got \in Seq(Slots) /\ Once(waiters)

LEMMA Lists ==
    ASSUME QInv
    PROVE  /\ waiters \in Seq(Threads) /\ stored \in Seq(Slots) /\ Once(waiters)
           /\ WaitingSenders = {t \in Threads : Has(waiters, t) /\ doing[t] # "receive"}
           /\ \A t : IsWaiting(t) <=> Has(waiters, t)
           /\ WaitingSenders \subseteq Contexts
<1>1. {t \in Threads : MustWait(t)} \subseteq Threads
  OBVIOUS
<1>2. waiters \in Seq(Threads)
  BY <1>1 DEF QInv, IInv
<1> QED BY <1>2 DEF QInv, IInv, WaitingSenders, IsWaiting, Has, Contexts

LEMMA WaitingSendersPrime ==
    WaitingSenders' = {t \in Threads : Has(waiters', t) /\ doing'[t] # "receive"}
  BY DEF WaitingSenders, IsWaiting, Has

LEMMA ToSetAdmit ==
    ASSUME NEW S, NEW s \in Seq(S), s # <<>>, NEW m \in S
    PROVE  ToSet(Append(Tail(s), m)) = ToSet(Tail(s)) \cup {m}
<1> DEFINE rest == Tail(s)
<1>1. rest \in Seq(S)
  OBVIOUS
<1> HIDE DEF rest
<1>2. ToSet(Append(rest, m)) = ToSet(rest) \cup {m}
  BY <1>1, ToSetAppend
<1> QED BY <1>2 DEF rest

LEMMA ToSetCons ==
    ASSUME NEW S, NEW s \in Seq(S), NEW m \in S
    PROVE  ToSet(<<m>> \o s) = {m} \cup ToSet(s)
<1> DEFINE u == <<m>>
<1>1. u \in Seq(S) /\ ToSet(u) = {m}
  BY DEF ToSet
<1>2. ToSet(u \o s) = ToSet(u) \cup ToSet(s)
  <2> HIDE DEF u
  <2> QED BY <1>1, ToSetConcat
<1> QED BY <1>1, <1>2

LEMMA StoredMessage ==
    ASSUME QInv, NEW c \in Senders, NEW h \in {"send", "sendFront"}, Store(c, h),
           Message(c, h) \in Slots
    PROVE  ToSet(stored') = ToSet(stored) \cup {Message(c, h)}
<1>1. CASE h = "send"
  BY <1>1, ToSetAppend, Lists DEF Store
<1>2. CASE h # "send"
  <2> DEFINE m == Message(c, h)
  <2>1. stored' = <<m>> \o stored
    BY <1>2 DEF Store
  <2>2. m \in Slots /\ stored \in Seq(Slots)
    BY Lists
  <2>3. ToSet(<<m>> \o stored) = {m} \cup ToSet(stored)
    <3> HIDE DEF m
    <3> QED BY <2>2, ToSetCons
  <2> QED BY <2>1, <2>3
<1> QED BY <1>1, <1>2

LEMMA SendQInv ==
    ASSUME QInv, NEW c \in Senders, NEW h \in {"send", "sendFront"}, Send(c, h)
    PROVE  QInv'
<1> USE DEF QInv
<1>1. IInv'
  BY SendIInv
<1>2. Runs(c) /\ c \notin WaitingSenders /\ ~Has(waiters, c)
  BY Lists DEF Send, Store, HandToReceiver, Refuse, SuspendSender, Sends, Runs, WaitingSenders
<1>3. CASE Store(c, h)
  <2>1. Message(c, h) \in Slots /\ UNCHANGED <<waiters, doing, got, flushed>>
    BY <1>3, MessageTyped DEF Store, Sends
  <2>2. Accepted' = Accepted \cup {Message(c, h)}
    <3>1. ToSet(stored') = ToSet(stored) \cup {Message(c, h)}
      BY <1>3, <2>1, StoredMessage
    <3> QED BY <2>1, <3>1 DEF Accepted
  <2>3. WaitingSenders' = WaitingSenders /\ c \notin WaitingSenders'
    BY <1>2, <2>1, WaitingSendersPrime, Lists
  <2> QED BY <1>1, <1>2, <1>3, <2>1, <2>2, <2>3, SentHInv DEF Store, Errors
<1>4. CASE HandToReceiver(c, h)
  <2>1. Message(c, h) \in Slots /\ UNCHANGED <<stored, doing, flushed>>
    BY <1>4, MessageTyped DEF HandToReceiver, Sends
  <2>2. Accepted' = Accepted \cup {Message(c, h)} /\ got' \in Seq(Slots)
    <3>1. got' = Append(got, Message(c, h))
      BY <1>4 DEF HandToReceiver
    <3> QED BY <2>1, <3>1, ToSetAppend DEF Accepted
  <2>3. Once(waiters') /\ \A t : Has(waiters', t) => Has(waiters, t)
    BY <1>4, OnceTail, Lists DEF HandToReceiver, Rest
  <2>4. WaitingSenders' \subseteq WaitingSenders /\ c \notin WaitingSenders'
    BY <1>2, <2>1, <2>3, WaitingSendersPrime, Lists
  <2> QED BY <1>1, <1>2, <1>4, <2>1, <2>2, <2>3, <2>4, SentHInv DEF HandToReceiver, Errors, Once
<1>5. CASE Refuse(c, h)
  <2>1. UNCHANGED <<stored, waiters, doing, got, flushed>>
    BY <1>5 DEF Refuse, Sends
  <2>2. Accepted' = Accepted
    BY <2>1 DEF Accepted
  <2>3. WaitingSenders' = WaitingSenders /\ c \notin WaitingSenders'
    BY <1>2, <2>1, WaitingSendersPrime, Lists
  <2> QED BY <1>1, <1>2, <1>5, <2>1, <2>2, <2>3, SentHInv DEF Refuse, Errors
<1>6. CASE c \in Threads /\ SuspendSender(c, h)
  <2>1. /\ UNCHANGED <<stored, got, flushed>> /\ Sends(c, h, "none")
        /\ doing' = [doing EXCEPT ![c] = h] /\ doing \in [Threads -> {"receive", "send", "sendFront"}]
    BY <1>6 DEF SuspendSender, Sends, IInv
  <2>2. Accepted' = Accepted
    BY <2>1 DEF Accepted
  <2>3. Once(waiters') /\ \A t : Has(waiters', t) <=> Has(waiters, t) \/ t = c
    <3>1. CASE h = "send"
      BY <1>2, <1>6, <3>1, OnceAppend, Lists DEF SuspendSender
    <3>2. CASE h # "send"
      BY <1>2, <1>6, <3>2, OnceCons, Lists DEF SuspendSender
    <3> QED BY <3>1, <3>2
  <2>4. /\ WaitingSenders' \subseteq WaitingSenders \cup {c}
        /\ \A t \in WaitingSenders' : doing'[t] = IF t = c THEN h ELSE doing[t]
    BY <1>2, <1>6, <2>1, <2>3, WaitingSendersPrime, Lists
  <2> QED BY <1>1, <1>2, <2>1, <2>2, <2>3, <2>4, SentHInv DEF Errors, Once
<1> QED BY <1>3, <1>4, <1>5, <1>6 DEF Send

\* The first in the list is no longer suspended, and its message is accepted.
LEMMA ResumeHInv ==
    ASSUME QInv, Resume, doing[First] # "receive", UNCHANGED <<doing, sending, sent>>,
           Accepted' = Accepted \cup {sending[First]}
    PROVE  HInv' /\ Once(waiters')
<1> USE DEF QInv, Resume
<1>1. First \in Threads /\ Has(waiters, First) /\ First \in WaitingSenders
  <2>1. waiters \in Seq(Threads) /\ waiters # <<>> /\ First = waiters[1] /\ 1 \in 1..Len(waiters)
    BY Lists DEF First
  <2> QED BY <2>1, Lists DEF Has
<1>2. Once(waiters') /\ \A t : Has(waiters', t) <=> Has(waiters, t) /\ t # First
  BY OnceTail, Lists DEF Rest, First
<1>3. WaitingSenders' \subseteq WaitingSenders \ {First}
  BY <1>2, WaitingSendersPrime, Lists
<1>4. answer' = [c \in Contexts |-> IF c \in {First} THEN "success" ELSE answer[c]]
  BY DEF HInv
<1>5. Accepted' = Accepted \cup {sending[t] : t \in {First}}
  OBVIOUS
<1> QED BY <1>1, <1>2, <1>3, <1>4, <1>5, AdmittedHInv

LEMMA ReceiveQInv == ASSUME QInv, NEW c \in Contexts, Receive(c) PROVE QInv'
<1> USE DEF QInv
<1>1. IInv' /\ stored # <<>> /\ UNCHANGED <<doing, sending, sent, flushed>>
  BY ReceiveIInv DEF Receive
<1>2. ToSet(stored) = {Head(stored)} \cup ToSet(Tail(stored)) /\ Head(stored) \in Slots
  BY <1>1, ToSetHead, Lists
<1>3. CASE Take
  <2>1. Accepted' = Accepted
    <3>1. ToSet(got') = ToSet(got) \cup {Head(stored)} /\ ToSet(stored') = ToSet(Tail(stored))
      BY <1>2, <1>3, ToSetAppend DEF Take
    <3> QED BY <1>1, <1>2, <3>1 DEF Accepted
  <2>2. WaitingSenders' = WaitingSenders
    BY <1>1, <1>3, WaitingSendersPrime, Lists DEF Take
  <2>3. got' \in Seq(Slots)
    BY <1>2, <1>3 DEF Take
  <2> QED BY <1>1, <1>3, <2>1, <2>2, <2>3, KeptHInv DEF Take, HInv
<1>4. CASE TakeOffered
  <2>1. sending[First] \in Slots
    BY <1>4, Lists DEF TakeOffered, Resume, First, IInv, Contexts
  <2>2. Accepted' = Accepted \cup {sending[First]} /\ got' \in Seq(Slots)
    <3>1. got' = Append(got, sending[First]) /\ stored' = stored
      BY <1>4 DEF TakeOffered
    <3> QED BY <1>1, <2>1, <3>1, ToSetAppend DEF Accepted
  <2> QED BY <1>1, <1>4, <2>2, ResumeHInv DEF TakeOffered, Once
<1>5. CASE TakeAndAdmit
  <2>1. sending[First] \in Slots
    BY <1>5, Lists DEF TakeAndAdmit, Resume, First, IInv, Contexts
  <2>2. Accepted' = Accepted \cup {sending[First]} /\ got' \in Seq(Slots)
    <3>1. got' = Append(got, Head(stored)) /\ stored' = Append(Tail(stored), sending[First])
      BY <1>5 DEF TakeAndAdmit
    <3>2. ToSet(got') = ToSet(got) \cup {Head(stored)} /\ got' \in Seq(Slots)
      BY <1>2, <3>1, ToSetAppend
    <3>3. ToSet(stored') = ToSet(Tail(stored)) \cup {sending[First]}
      <4> DEFINE m == sending[First]
      <4>1. m \in Slots /\ stored \in Seq(Slots) /\ stored # <<>>
        BY <1>1, <2>1, Lists
      <4>2. ToSet(Append(Tail(stored), m)) = ToSet(Tail(stored)) \cup {m}
        <5> HIDE DEF m
        <5> QED BY <4>1, ToSetAdmit
      <4> QED BY <3>1, <4>2
    <3> QED BY <1>1, <1>2, <3>2, <3>3 DEF Accepted
  <2> QED BY <1>1, <1>5, <2>2, ResumeHInv DEF TakeAndAdmit, Once
<1> QED BY <1>3, <1>4, <1>5 DEF Receive

\* A step that moves no message and suspends no sender.
LEMMA QuietQInv ==
    ASSUME QInv, IInv', UNCHANGED <<stored, got, flushed, sending, sent, doing, answer>>,
           Once(waiters'), \A t : Has(waiters', t) => Has(waiters, t)
    PROVE  QInv'
<1> USE DEF QInv
<1>1. Accepted' = Accepted
  BY DEF Accepted
<1>2. WaitingSenders' \subseteq WaitingSenders
  BY WaitingSendersPrime, Lists
<1>3. HInv'
  BY <1>1, <1>2, KeptHInv DEF HInv
<1> QED BY <1>3 DEF Once

LEMMA NextQInv == ASSUME QInv, [Next]_vars PROVE QInv'
<1> USE DEF QInv
<1>0. IInv'
  BY NextIInv
<1>1. ASSUME NEW c \in Senders, Send(c, "send") \/ Send(c, "sendFront") PROVE QInv'
  BY <1>1, SendQInv
<1>2. ASSUME NEW c \in Contexts, Receive(c) PROVE QInv'
  BY <1>2, ReceiveQInv
<1>3. ASSUME NEW c \in Contexts, NotifyEnds(c) PROVE QInv'
  BY <1>0, <1>3, QuietQInv DEF NotifyEnds
<1>4. ASSUME NEW t \in Threads, SuspendReceiver(t) PROVE QInv'
  <2>1. /\ waiters' = Append(waiters, t) /\ doing' = [doing EXCEPT ![t] = "receive"]
        /\ UNCHANGED <<stored, got, flushed, sending, sent, answer>> /\ ~Has(waiters, t)
    BY <1>4, Lists DEF SuspendReceiver, Runs
  <2>2. Once(waiters') /\ \A u : Has(waiters', u) <=> Has(waiters, u) \/ u = t
    BY <2>1, OnceAppend, Lists
  <2>3. \A u \in Threads \ {t} : doing'[u] = doing[u]
    BY <2>1 DEF IInv
  <2>4. doing'[t] = "receive"
    BY <2>1 DEF IInv
  <2>5. WaitingSenders' = WaitingSenders /\ t \notin WaitingSenders
    BY <2>1, <2>2, <2>3, <2>4, WaitingSendersPrime, Lists
  <2>6. Accepted' = Accepted
    BY <2>1 DEF Accepted
  <2>7. /\ OwnMessages' /\ Numbered' /\ Latest' /\ SendAnswersTruly'
        /\ answer' \in [Contexts -> Errors]
    BY <2>1, <2>6 DEF HInv, OwnMessages, Numbered, Latest, SendAnswersTruly
  <2>8. UnderWay'
    BY <2>1, <2>3, <2>5, Lists DEF HInv, UnderWay, WaitingSenders
  <2> QED BY <1>0, <2>1, <2>2, <2>7, <2>8 DEF HInv, Once
<1>5. ASSUME NEW t \in Threads, NEW error \in {"queueFull", "waitAborted"}, GiveUp(t, error)
      PROVE  QInv'
  <2>1. PICK i \in 1..Len(waiters) : waiters[i] = t /\ waiters' = RemoveAt(waiters, i)
    BY <1>5 DEF GiveUp
  <2>2. Once(waiters') /\ (\A u : Has(waiters', u) <=> Has(waiters, u) /\ u # t) /\ Has(waiters, t)
    <3>1. Has(waiters, t)
      BY <2>1 DEF Has
    <3> QED BY <2>1, <3>1, OnceRemoveAt, Lists
  <2>3. UNCHANGED <<stored, got, flushed, sending, sent, doing>> /\ Answer(t, error)
    BY <1>5 DEF GiveUp
  <2>4. CASE doing[t] = "receive"
    BY <1>0, <2>2, <2>3, <2>4, QuietQInv DEF Answer
  <2>5. CASE doing[t] # "receive"
    <3>1. t \in WaitingSenders \ WaitingSenders' /\ WaitingSenders' \subseteq WaitingSenders
      BY <2>2, <2>3, <2>5, WaitingSendersPrime, Lists
    <3>2. Accepted' = Accepted
      BY <2>3 DEF Accepted
    <3>3. answer' = [answer EXCEPT ![t] = error] /\ error \in Errors \ {"success"}
      BY <2>3, <2>5 DEF Answer, Errors
    <3>4. HInv'
      BY <2>3, <3>1, <3>2, <3>3, KeptHInv DEF HInv
    <3> QED BY <1>0, <2>2, <2>3, <3>4 DEF Once
  <2> QED BY <2>4, <2>5
<1>6. CASE Prioritise
  <2>1. PICK i \in 1..Len(waiters) : waiters' = <<waiters[i]>> \o RemoveAt(waiters, i)
    BY <1>6 DEF Prioritise
  <2> DEFINE w == RemoveAt(waiters, i)
  <2>2. /\ w \in Seq(Threads) /\ Once(w) /\ \A u : Has(w, u) <=> Has(waiters, u) /\ u # waiters[i]
        /\ waiters[i] \in Threads /\ Has(waiters, waiters[i])
    <3>1. waiters[i] \in Threads /\ Has(waiters, waiters[i])
      BY Lists DEF Has
    <3> QED BY <3>1, OnceRemoveAt, Lists
  <2> HIDE DEF w
  <2>3. Once(<<waiters[i]>> \o w) /\ \A u : Has(<<waiters[i]>> \o w, u) <=> Has(w, u) \/ u = waiters[i]
    BY <2>2, OnceCons
  <2>4. Once(waiters') /\ \A u : Has(waiters', u) => Has(waiters, u)
    BY <2>1, <2>2, <2>3 DEF w
  <2> QED BY <1>0, <1>6, <2>4, QuietQInv DEF Prioritise
<1>7. CASE Flush
  <2>1. /\ waiters' = <<>> /\ stored' = <<>> /\ UNCHANGED <<got, sending, sent, doing>>
        /\ flushed' = flushed \cup ToSet(stored) \cup {sending[t] : t \in WaitingSenders}
        /\ answer' = [c \in Contexts |-> IF c \in WaitingSenders THEN "success" ELSE answer[c]]
    BY <1>7 DEF Flush
  <2>2. Accepted' = Accepted \cup {sending[t] : t \in WaitingSenders}
    BY <2>1 DEF Accepted, ToSet
  <2>3. WaitingSenders' = {} /\ Once(waiters')
    BY <2>1, WaitingSendersPrime DEF Has, Once
  <2>4. HInv'
    BY <2>1, <2>2, <2>3, AdmittedHInv
  <2> QED BY <1>0, <2>1, <2>3, <2>4 DEF Once
<1>8. CASE Destroy
  <2>1. /\ waiters' = <<>> /\ stored' = <<>> /\ UNCHANGED <<got, sending, sent, doing>>
        /\ flushed' = flushed \cup ToSet(stored)
        /\ answer' = [c \in Contexts |-> IF c \in WaitingSenders THEN "deleted" ELSE answer[c]]
    BY <1>8 DEF Destroy
  <2>2. Accepted' = Accepted
    BY <2>1 DEF Accepted, ToSet
  <2>3. WaitingSenders' = {} /\ Once(waiters')
    BY <2>1, WaitingSendersPrime DEF Has, Once
  <2>4. HInv'
    BY <2>1, <2>2, <2>3, KeptHInv DEF HInv, Errors
  <2> QED BY <1>0, <2>1, <2>3, <2>4 DEF Once
<1>9. CASE UNCHANGED vars
  BY <1>0, <1>9, QuietQInv DEF vars
<1> QED BY <1>1, <1>2, <1>3, <1>4, <1>5, <1>6, <1>7, <1>8, <1>9, Zenon DEF Next

LEMMA InitQInv == Init => QInv
<1> SUFFICES ASSUME Init PROVE QInv
  OBVIOUS
<1> USE DEF Init
<1>1. ToSet(<<>>) = {}
  BY DEF ToSet
<1>2. Accepted = {} /\ WaitingSenders = {}
  BY <1>1 DEF Accepted, WaitingSenders, IsWaiting
<1>3. HInv
  BY <1>2 DEF HInv, OwnMessages, UnderWay, Numbered, Latest, SendAnswersTruly, Errors
<1>4. IInv
  BY InitIInv
<1> QED BY <1>3, <1>4 DEF QInv, Once

(* A send that answers success has given its message away, one that answers  *)
(* anything else has not, for any contexts, capacity and order of calls.     *)
THEOREM AnswersAreTrue == Spec => []SendAnswersTruly
<1>1. QInv => SendAnswersTruly BY DEF QInv, HInv
<1> QED BY <1>1, InitQInv, NextQInv, PTL DEF Spec

-----------------------------------------------------------------------------
(***************************************************************************)
(* The callback: what is stored is known to those who were told, or to a   *)
(* sender that is about to tell.                                           *)
(***************************************************************************)
Telling == {sending[c] : c \in telling}

TInv == telling \subseteq Contexts /\ ToSet(stored) \subseteq told \cup Telling

\* A send by a context that is not inside the callback leaves the others' news alone.
LEMMA SendTelling ==
    ASSUME QInv, TInv, NEW c \in Senders, NEW h \in {"send", "sendFront"}, NEW e, Sends(c, h, e)
    PROVE  /\ telling' \subseteq Contexts /\ Telling \subseteq Telling' /\ told' = told
           /\ e = "success" => Message(c, h) \in Telling'
<1>1. /\ c \in Contexts /\ c \notin telling /\ sending \in [Contexts -> Slots]
      /\ sending' = [sending EXCEPT ![c] = Message(c, h)]
      /\ telling' = IF e = "success" THEN telling \cup {c} ELSE telling
      /\ told' = told
  BY QueueAssumption DEF Sends, QInv, IInv, Contexts
<1>2. \A d \in telling : sending'[d] = sending[d] /\ d \in telling'
  BY <1>1 DEF TInv
<1>3. Telling \subseteq Telling'
  BY <1>2 DEF Telling
<1>4. e = "success" => c \in telling' /\ sending'[c] = Message(c, h)
  BY <1>1
<1>5. e = "success" => Message(c, h) \in Telling'
  BY <1>4 DEF Telling
<1> QED BY <1>1, <1>3, <1>5 DEF TInv

LEMMA SendTInv ==
    ASSUME QInv, TInv, NEW c \in Senders, NEW h \in {"send", "sendFront"}, Send(c, h)
    PROVE  TInv'
<1>1. CASE Store(c, h)
  <2>1. /\ telling' \subseteq Contexts /\ Telling \subseteq Telling' /\ told' = told
        /\ Message(c, h) \in Telling'
    BY <1>1, SendTelling DEF Store
  <2>2. Message(c, h) \in Slots
    BY <1>1, MessageTyped DEF Store, QInv
  <2>3. ToSet(stored') = ToSet(stored) \cup {Message(c, h)}
    BY <1>1, <2>2, StoredMessage
  <2> QED BY <2>1, <2>3 DEF TInv
<1>2. CASE HandToReceiver(c, h)
  BY <1>2, SendTelling DEF HandToReceiver, TInv, ToSet
<1>3. CASE Refuse(c, h)
  BY <1>3, SendTelling DEF Refuse, TInv, ToSet
<1>4. CASE SuspendSender(c, h)
  BY <1>4, SendTelling DEF SuspendSender, TInv, ToSet
<1> QED BY <1>1, <1>2, <1>3, <1>4 DEF Send

LEMMA ReceiveTInv == ASSUME QInv, TInv, NEW c \in Contexts, Receive(c) PROVE TInv'
<1>1. stored # <<>> /\ UNCHANGED <<sending, told>>
  BY DEF Receive
<1>2. ToSet(stored) = {Head(stored)} \cup ToSet(Tail(stored)) /\ Tail(stored) \in Seq(Slots)
  BY <1>1, ToSetHead, Lists
<1>3. CASE Take
  BY <1>1, <1>2, <1>3 DEF Take, TInv, Telling
<1>4. CASE Resume
  <2>1. First \in Threads /\ telling' = telling \cup {First}
    BY <1>4, Lists DEF Resume, First
  <2>2. Telling' = Telling \cup {sending[First]} /\ telling' \subseteq Contexts
    BY <1>1, <2>1 DEF Telling, TInv, Contexts
  <2>3. ToSet(stored') \subseteq ToSet(stored) \cup {sending[First]}
    <3>1. CASE TakeOffered
      BY <3>1 DEF TakeOffered
    <3>2. CASE TakeAndAdmit
      <4>1. sending[First] \in Slots /\ stored' = Append(Tail(stored), sending[First])
        BY <2>1, <3>2 DEF TakeAndAdmit, QInv, IInv, Contexts
      <4>2. ToSet(stored') = ToSet(Tail(stored)) \cup {sending[First]}
        <5> DEFINE m == sending[First]
        <5>1. m \in Slots /\ stored \in Seq(Slots) /\ stored # <<>>
          BY <1>1, <4>1, Lists
        <5>2. ToSet(Append(Tail(stored), m)) = ToSet(Tail(stored)) \cup {m}
          <6> HIDE DEF m
          <6> QED BY <5>1, ToSetAdmit
        <5> QED BY <4>1, <5>2
      <4> QED BY <1>2, <4>2
    <3>3. CASE Take
      BY <1>2, <3>3 DEF Take
    <3> QED BY <3>1, <3>2, <3>3 DEF Receive
  <2> QED BY <1>1, <2>2, <2>3 DEF TInv
<1> QED BY <1>3, <1>4 DEF Receive, TakeOffered, TakeAndAdmit

LEMMA NextTInv == ASSUME QInv, TInv, [Next]_vars PROVE TInv'
<1>1. ASSUME NEW c \in Senders, Send(c, "send") \/ Send(c, "sendFront") PROVE TInv'
  BY <1>1, SendTInv
<1>2. ASSUME NEW c \in Contexts, Receive(c) PROVE TInv'
  BY <1>2, ReceiveTInv
<1>3. ASSUME NEW c \in Contexts, NotifyEnds(c) PROVE TInv'
  BY <1>3 DEF NotifyEnds, TInv, Telling
<1>4. ASSUME NEW t \in Threads,
             \/ SuspendReceiver(t)
             \/ \E error \in {"queueFull", "waitAborted"} : GiveUp(t, error)
      PROVE  TInv'
  BY <1>4 DEF SuspendReceiver, GiveUp, TInv, Telling
<1>5. CASE Flush
  <2>1. WaitingSenders \subseteq Contexts /\ ToSet(<<>>) = {}
    BY Lists DEF ToSet
  <2> QED BY <1>5, <2>1 DEF Flush, TInv
<1>6. CASE Destroy
  <2>1. ToSet(<<>>) = {}
    BY DEF ToSet
  <2> QED BY <1>6, <2>1 DEF Destroy, TInv
<1>7. CASE Prioritise \/ UNCHANGED vars
  BY <1>7 DEF Prioritise, vars, TInv, Telling
<1> QED BY <1>1, <1>2, <1>3, <1>4, <1>5, <1>6, <1>7, Zenon DEF Next

(* No message lies in the queue unannounced, however long its send waited.   *)
THEOREM NothingUnannounced == Spec => []Announced
<1>1. Init => TInv
  BY DEF Init, TInv, ToSet
<1>2. QInv /\ TInv => Announced
  <2> SUFFICES ASSUME QInv, TInv, NEW i \in 1..Len(stored)
               PROVE  stored[i] \in told \/ \E c \in telling : sending[c] = stored[i]
    BY DEF Announced
  <2>1. stored[i] \in ToSet(stored)
    BY Lists DEF ToSet
  <2> QED BY <2>1 DEF TInv, Telling
<1>3. QInv /\ TInv /\ [Next]_vars => (QInv /\ TInv)'
  BY NextQInv, NextTInv
<1> QED BY <1>1, <1>2, <1>3, InitQInv, PTL DEF Spec

-----------------------------------------------------------------------------
(***************************************************************************)
(* The order of messages.  A message that is accepted is younger than all  *)
(* of its sender's before it; a plain one goes to the end of the line, one *)
(* in front may go anywhere.                                               *)
(***************************************************************************)
Ordered(s) ==
    \A i, k \in 1..Len(s) :
        i < k /\ s[i].from = s[k].from =>
           /\ s[i].number # s[k].number
           /\ s[i].how = "send" /\ s[k].how = "send" => s[i].number < s[k].number

Younger(m, ms) == \A x \in ms : x.from = m.from => x.number < m.number

LEMMA NumbersAreNatural == \A m \in Slots : m.number \in Nat
  BY QueueAssumption DEF Slots, Messages, NoMessage

Inserted(a, m, b) == a \o (<<m>> \o b)

LEMMA OrderedInsert ==
    ASSUME NEW a \in Seq(Slots), NEW b \in Seq(Slots), NEW m \in Slots,
           Ordered(a \o b), Younger(m, ToSet(a \o b)), m.how = "send" => b = <<>>
    PROVE  Ordered(Inserted(a, m, b))
<1> DEFINE s == a \o b
           v == a \o (<<m>> \o b)
           f(i) == IF i <= Len(a) THEN i ELSE i - 1
<1>1. /\ Len(a) \in Nat /\ Len(b) \in Nat /\ s \in Seq(Slots)
      /\ Len(s) = Len(a) + Len(b) /\ DOMAIN s = 1..Len(s)
      /\ \A i \in 1..Len(s) : s[i] = IF i <= Len(a) THEN a[i] ELSE b[i - Len(a)]
  OBVIOUS
<1>2. /\ Len(v) = Len(s) + 1
      /\ \A i \in 1..Len(v) : v[i] = IF i <= Len(a) THEN a[i]
                                     ELSE IF i = Len(a) + 1 THEN m ELSE b[i - Len(a) - 1]
  <2> DEFINE w == <<m>> \o b
  <2>1. /\ w \in Seq(Slots) /\ Len(w) = Len(b) + 1
        /\ \A i \in 1..Len(b) + 1 : w[i] = IF i = 1 THEN m ELSE b[i - 1]
    OBVIOUS
  <2> HIDE DEF w
  <2>2. /\ Len(a \o w) = Len(a) + Len(w)
        /\ \A i \in 1..Len(a) + Len(w) : (a \o w)[i] = IF i <= Len(a) THEN a[i] ELSE w[i - Len(a)]
    BY <2>1, SMTT(30)
  <2> QED BY <1>1, <2>1, <2>2, SMTT(30) DEF w
<1>3. ASSUME NEW i \in 1..Len(v), i # Len(a) + 1
      PROVE  f(i) \in 1..Len(s) /\ v[i] = s[f(i)] /\ s[f(i)] \in ToSet(s) /\ s[f(i)] \in Slots
  <2> HIDE DEF s, v
  <2>1. Len(v) = Len(a) + Len(b) + 1 /\ Len(s) = Len(a) + Len(b) /\ Len(a) \in Nat /\ Len(b) \in Nat
    BY <1>1, <1>2
  <2>2. \A k \in 1..Len(s) : s[k] \in ToSet(s) /\ s[k] \in Slots
    BY <1>1, SMTT(30) DEF ToSet
  <2>3. CASE i <= Len(a)
    <3>1. i \in 1..Len(s) /\ f(i) = i
      BY <2>1, <2>3
    <3>2. s[i] = a[i] /\ v[i] = a[i]
      BY <1>1, <1>2, <2>3, <3>1
    <3>3. s[i] \in ToSet(s) /\ s[i] \in Slots
      BY <2>2, <3>1
    <3> QED BY <3>1, <3>2, <3>3
  <2>4. CASE ~(i <= Len(a))
    <3>1. i - 1 \in 1..Len(s) /\ f(i) = i - 1 /\ ~(i - 1 <= Len(a)) /\ i - 1 - Len(a) = i - Len(a) - 1
      BY <2>1, <2>4, <1>3
    <3>2. s[i - 1] = b[i - 1 - Len(a)] /\ v[i] = b[i - Len(a) - 1]
      BY <1>1, <1>2, <1>3, <2>4, <3>1
    <3>3. s[i - 1] \in ToSet(s) /\ s[i - 1] \in Slots
      BY <2>2, <3>1
    <3> QED BY <3>1, <3>2, <3>3
  <2> QED BY <2>3, <2>4
<1>4. v[Len(a) + 1] = m
  BY <1>1, <1>2
<1> SUFFICES ASSUME NEW i \in 1..Len(v), NEW k \in 1..Len(v), i < k, v[i].from = v[k].from
             PROVE  /\ v[i].number # v[k].number
                    /\ v[i].how = "send" /\ v[k].how = "send" => v[i].number < v[k].number
  BY DEF Ordered, Inserted
<1> HIDE DEF s, v
<1>5. CASE i # Len(a) + 1 /\ k # Len(a) + 1
  <2>1. f(i) < f(k) /\ f(i) \in 1..Len(s) /\ f(k) \in 1..Len(s)
    BY <1>1, <1>2, <1>3, <1>5
  <2>2. v[i] = s[f(i)] /\ v[k] = s[f(k)]
    BY <1>3, <1>5
  <2> HIDE DEF f
  <2>3. Ordered(s)
    BY DEF s
  <2> QED BY <2>1, <2>2, <2>3, SMTT(30) DEF Ordered
<1>6. CASE k = Len(a) + 1
  <2>1. v[k] = m /\ v[i] \in ToSet(s) /\ v[i] \in Slots
    BY <1>1, <1>2, <1>3, <1>4, <1>6
  <2>2. v[i].number < m.number
    BY <2>1 DEF Younger, s
  <2>3. v[i].number \in Nat /\ m.number \in Nat
    BY <2>1, NumbersAreNatural
  <2> QED BY <2>1, <2>2, <2>3
<1>7. CASE i = Len(a) + 1
  <2>1. v[i] = m /\ v[k] \in ToSet(s) /\ v[k] \in Slots
    BY <1>1, <1>2, <1>3, <1>4, <1>7
  <2>2. b # <<>>
    BY <1>1, <1>2, <1>7
  <2>3. m.how # "send" /\ v[k].number < m.number
    BY <2>1, <2>2 DEF Younger, s
  <2>4. v[k].number \in Nat /\ m.number \in Nat
    BY <2>1, NumbersAreNatural
  <2> QED BY <2>1, <2>3, <2>4
<1> QED BY <1>5, <1>6, <1>7

LEMMA OrderedPart ==
    ASSUME NEW a \in Seq(Slots), NEW b \in Seq(Slots), Ordered(a \o b)
    PROVE  Ordered(a) /\ ToSet(a) \cap ToSet(b) = {}
<1> DEFINE s == a \o b
<1>1. /\ Len(a) \in Nat /\ Len(b) \in Nat /\ Len(s) = Len(a) + Len(b)
      /\ \A i \in 1..Len(s) : s[i] = IF i <= Len(a) THEN a[i] ELSE b[i - Len(a)]
      /\ DOMAIN a = 1..Len(a) /\ DOMAIN b = 1..Len(b)
  OBVIOUS
<1>2. Ordered(s)
  OBVIOUS
<1> HIDE DEF s
<1>3. Ordered(a)
  BY <1>1, <1>2 DEF Ordered
<1>4. ASSUME NEW i \in 1..Len(a), NEW k \in 1..Len(b) PROVE a[i] # b[k]
  <2>1. /\ i \in 1..Len(s) /\ Len(a) + k \in 1..Len(s) /\ i < Len(a) + k
        /\ s[i] = a[i] /\ s[Len(a) + k] = b[k]
    BY <1>1
  <2> QED BY <1>2, <2>1, SMTT(30) DEF Ordered
<1> QED BY <1>1, <1>3, <1>4 DEF ToSet

LEMMA ToSetInsert ==
    ASSUME NEW a \in Seq(Slots), NEW b \in Seq(Slots), NEW m \in Slots
    PROVE  \A x \in ToSet(Inserted(a, m, b)) : x \in ToSet(a \o b) \/ x = m
<1> DEFINE u == <<m>>
           w == u \o b
<1>1. u \in Seq(Slots) /\ w \in Seq(Slots) /\ ToSet(u) = {m}
  BY DEF ToSet
<1>2. ToSet(w) = ToSet(u) \cup ToSet(b)
  <2> HIDE DEF u
  <2> QED BY <1>1, ToSetConcat
<1>3. ToSet(a \o w) = ToSet(a) \cup ToSet(w)
  <2> HIDE DEF u, w
  <2> QED BY <1>1, ToSetConcat
<1>4. ToSet(a \o b) = ToSet(a) \cup ToSet(b)
  BY ToSetConcat
<1>5. ToSet(a \o w) = ToSet(a \o b) \cup {m}
  <2> HIDE DEF u, w
  <2> QED BY <1>1, <1>2, <1>3, <1>4
<1> QED BY <1>5 DEF Inserted

OInv == Ordered(got \o stored) /\ flushed \cap ToSet(got \o stored) = {}

\* A message is accepted that is younger than its sender's accepted ones.
LEMMA InsertOInv ==
    ASSUME QInv, OInv, NEW a \in Seq(Slots), NEW b \in Seq(Slots), NEW m \in Slots,
           a \o b = got \o stored, got' \o stored' = Inserted(a, m, b), flushed' = flushed,
           m \notin Accepted, Younger(m, Accepted), m.how = "send" => b = <<>>
    PROVE  OInv'
<1>1. ToSet(a \o b) = ToSet(got) \cup ToSet(stored)
  BY ToSetConcat, Lists DEF QInv
<1>2. Younger(m, ToSet(a \o b))
  BY <1>1 DEF Younger, Accepted
<1>3. Ordered(a \o b)
  BY DEF OInv
<1>4. Ordered(Inserted(a, m, b))
  BY <1>2, <1>3, OrderedInsert
<1>5. \A x \in ToSet(Inserted(a, m, b)) : x \in ToSet(a \o b) \/ x = m
  BY ToSetInsert
<1>6. flushed \cap ToSet(a \o b) = {} /\ m \notin flushed
  BY DEF OInv, Accepted
<1>7. flushed' \cap ToSet(got' \o stored') = {}
  BY <1>5, <1>6
<1> QED BY <1>4, <1>7 DEF OInv

LEMMA SentIsYounger ==
    ASSUME QInv, NEW c \in Senders, NEW h \in {"send", "sendFront"}, NEW e, Sends(c, h, e)
    PROVE  /\ Message(c, h) \in Slots /\ Message(c, h).how = h
           /\ Message(c, h) \notin Accepted /\ Younger(Message(c, h), Accepted)
<1>1. Message(c, h) \in Slots
  BY MessageTyped DEF QInv
<1>2. Message(c, h).how = h /\ Message(c, h).number = sent + 1 /\ sent \in Nat
  BY QueueAssumption DEF Message, QInv, IInv
<1>3. \A x \in Accepted : x.number \in 1..sent
  BY DEF QInv, HInv, Numbered
<1> QED BY <1>1, <1>2, <1>3 DEF Younger

LEMMA ResumedIsYounger ==
    ASSUME QInv, NEW t \in WaitingSenders
    PROVE  /\ sending[t] \in Slots /\ sending[t].how = doing[t]
           /\ sending[t] \notin Accepted /\ Younger(sending[t], Accepted)
<1>1. t \in Contexts /\ sending \in [Contexts -> Slots]
  BY Lists DEF QInv, IInv
<1>2. answer[t] = "none" /\ sending[t] # NoMessage /\ sending[t].how = doing[t]
  BY DEF QInv, HInv, UnderWay
<1>3. sending[t] \notin Accepted
  BY <1>1, <1>2 DEF QInv, HInv, SendAnswersTruly
<1>4. sending[t].from = t
  BY <1>1, <1>2 DEF QInv, HInv, OwnMessages
<1>5. \A x \in Accepted : x = sending[x.from] \/ x.number < sending[x.from].number
  BY DEF QInv, HInv, Latest
<1> QED BY <1>1, <1>2, <1>3, <1>4, <1>5 DEF Younger

LEMMA SendOInv ==
    ASSUME QInv, OInv, NEW c \in Senders, NEW h \in {"send", "sendFront"}, Send(c, h)
    PROVE  OInv'
<1> DEFINE m == Message(c, h)
<1>1. got \in Seq(Slots) /\ stored \in Seq(Slots) /\ got \o stored \in Seq(Slots)
  BY Lists DEF QInv
<1>2. CASE Store(c, h) /\ h = "send"
  <2>1. Sends(c, h, "success") /\ got' = got /\ stored' = Append(stored, m) /\ flushed' = flushed
    BY <1>2 DEF Store, Sends
  <2>2. m \in Slots /\ m \notin Accepted /\ Younger(m, Accepted)
    BY <2>1, SentIsYounger
  <2>3. got' \o stored' = (got \o stored) \o (<<m>> \o <<>>)
    <3> HIDE DEF m
    <3> QED BY <1>1, <2>1, <2>2
  <2>4. (got \o stored) \o <<>> = got \o stored /\ <<>> \in Seq(Slots)
    BY <1>1
  <2> HIDE DEF m
  <2> QED BY <1>1, <2>1, <2>2, <2>3, <2>4, InsertOInv DEF Inserted
<1>3. CASE Store(c, h) /\ h # "send"
  <2>1. Sends(c, h, "success") /\ got' = got /\ stored' = <<m>> \o stored /\ flushed' = flushed
    BY <1>3 DEF Store, Sends
  <2>2. m \in Slots /\ m \notin Accepted /\ Younger(m, Accepted) /\ m.how # "send"
    BY <1>3, <2>1, SentIsYounger
  <2> HIDE DEF m
  <2> QED BY <1>1, <2>1, <2>2, InsertOInv DEF Inserted
<1>4. CASE HandToReceiver(c, h)
  <2>1. /\ Sends(c, h, "success") /\ got' = Append(got, m) /\ stored' = stored /\ flushed' = flushed
        /\ waiters # <<>> /\ Len(stored) < Capacity
    BY <1>4 DEF HandToReceiver, Sends
  <2>2. m \in Slots /\ m \notin Accepted /\ Younger(m, Accepted)
    BY <2>1, SentIsYounger
  <2>3. stored = <<>>
    <3>1. First \in Threads /\ MustWait(First)
      BY <2>1 DEF First, QInv, IInv
    <3> QED BY <2>1, <3>1, QueueAssumption DEF MustWait, QInv, IInv
  <2>4. got' \o stored' = got \o (<<m>> \o stored)
    <3> HIDE DEF m
    <3> QED BY <1>1, <2>1, <2>2, <2>3
  <2> HIDE DEF m
  <2> QED BY <1>1, <2>1, <2>2, <2>3, <2>4, InsertOInv DEF Inserted
<1>5. CASE Refuse(c, h) \/ SuspendSender(c, h)
  BY <1>5 DEF Refuse, SuspendSender, Sends, OInv
<1> QED BY <1>2, <1>3, <1>4, <1>5 DEF Send

LEMMA ReceiveOInv == ASSUME QInv, OInv, NEW c \in Contexts, Receive(c) PROVE OInv'
<1>1. /\ got \in Seq(Slots) /\ stored \in Seq(Slots) /\ got \o stored \in Seq(Slots)
      /\ stored # <<>> /\ flushed' = flushed
  BY Lists DEF QInv, Receive
<1>2. /\ Append(got, Head(stored)) \o Tail(stored) = got \o stored
      /\ Tail(stored) \in Seq(Slots) /\ Head(stored) \in Slots
  BY <1>1
<1>3. CASE Take
  BY <1>1, <1>2, <1>3 DEF Take, OInv
<1> DEFINE m == sending[First]
<1>4. ASSUME Resume, doing[First] # "receive"
      PROVE  m \in Slots /\ m.how = doing[First] /\ m \notin Accepted /\ Younger(m, Accepted)
  <2>1. waiters # <<>> /\ waiters \in Seq(Threads)
    BY <1>4, Lists DEF Resume
  <2>2. First = waiters[1] /\ 1 \in 1..Len(waiters) /\ First \in Threads
    BY <2>1 DEF First
  <2>3. First \in WaitingSenders
    BY <1>4, <2>2 DEF WaitingSenders, IsWaiting
  <2> QED BY <2>3, ResumedIsYounger
<1>5. CASE TakeOffered
  <2>1. /\ m \in Slots /\ m.how # "send" /\ m \notin Accepted /\ Younger(m, Accepted)
        /\ got' = Append(got, m) /\ stored' = stored
    BY <1>4, <1>5 DEF TakeOffered
  <2> HIDE DEF m
  <2>2. got' \o stored' = got \o (<<m>> \o stored)
    BY <1>1, <2>1
  <2> QED BY <1>1, <2>1, <2>2, InsertOInv DEF Inserted
<1>6. CASE TakeAndAdmit
  <2>1. /\ m \in Slots /\ m \notin Accepted /\ Younger(m, Accepted)
        /\ got' = Append(got, Head(stored)) /\ stored' = Append(Tail(stored), m)
    BY <1>4, <1>6 DEF TakeAndAdmit
  <2> HIDE DEF m
  <2>2. got' \o stored' = (Append(got, Head(stored)) \o Tail(stored)) \o (<<m>> \o <<>>)
    <3> DEFINE x == Append(got, Head(stored))
               y == Tail(stored)
    <3>1. x \in Seq(Slots) /\ y \in Seq(Slots)
      BY <1>1, <1>2
    <3>2. got' \o stored' = x \o Append(y, m)
      BY <2>1
    <3> HIDE DEF x, y
    <3>3. x \o Append(y, m) = (x \o y) \o (<<m>> \o <<>>)
      BY <2>1, <3>1
    <3> QED BY <3>2, <3>3 DEF x, y
  <2>3. (got \o stored) \o <<>> = got \o stored /\ <<>> \in Seq(Slots)
    BY <1>1
  <2> QED BY <1>1, <1>2, <2>1, <2>2, <2>3, InsertOInv DEF Inserted
<1> QED BY <1>3, <1>5, <1>6 DEF Receive

\* The stored messages are dropped, and those in D that were never accepted.
LEMMA DropOInv ==
    ASSUME QInv, OInv, NEW D, D \cap Accepted = {},
           got' = got, stored' = <<>>, flushed' = flushed \cup ToSet(stored) \cup D
    PROVE  OInv'
<1>1. got \in Seq(Slots) /\ stored \in Seq(Slots) /\ got' \o stored' = got
  BY Lists DEF QInv
<1>2. ToSet(got \o stored) = ToSet(got) \cup ToSet(stored)
  BY <1>1, ToSetConcat
<1>3. Ordered(got) /\ ToSet(got) \cap ToSet(stored) = {}
  BY <1>1, OrderedPart DEF OInv
<1>4. flushed' \cap ToSet(got) = {}
  BY <1>2, <1>3 DEF OInv, Accepted
<1> QED BY <1>1, <1>3, <1>4 DEF OInv

LEMMA NextOInv == ASSUME QInv, OInv, [Next]_vars PROVE OInv'
<1>1. ASSUME NEW c \in Senders, Send(c, "send") \/ Send(c, "sendFront") PROVE OInv'
  BY <1>1, SendOInv
<1>2. ASSUME NEW c \in Contexts, Receive(c) PROVE OInv'
  BY <1>2, ReceiveOInv
<1>3. ASSUME NEW c \in Contexts, NotifyEnds(c) PROVE OInv'
  BY <1>3 DEF NotifyEnds, OInv
<1>4. ASSUME NEW t \in Threads,
             \/ SuspendReceiver(t)
             \/ \E error \in {"queueFull", "waitAborted"} : GiveUp(t, error)
      PROVE  OInv'
  BY <1>4 DEF SuspendReceiver, GiveUp, OInv
<1>5. CASE Flush
  <2>1. {sending[t] : t \in WaitingSenders} \cap Accepted = {}
    BY ResumedIsYounger
  <2> QED BY <1>5, <2>1, DropOInv DEF Flush
<1>6. CASE Destroy
  <2>1. flushed' = flushed \cup ToSet(stored) \cup {} /\ {} \cap Accepted = {}
    BY <1>6 DEF Destroy
  <2> QED BY <1>6, <2>1, DropOInv DEF Destroy
<1>7. CASE Prioritise \/ UNCHANGED vars
  BY <1>7 DEF Prioritise, vars, OInv
<1> QED BY <1>1, <1>2, <1>3, <1>4, <1>5, <1>6, <1>7, Zenon DEF Next

(* Every context's plain messages are received in the order it sent them,    *)
(* each message once, and none after it was flushed.                         *)
THEOREM MessagesInOrder == Spec => []InOrder
<1>1. Init => OInv
  BY DEF Init, OInv, Ordered, ToSet
<1>2. OInv => InOrder
  BY DEF OInv, InOrder, Ordered
<1>3. QInv /\ OInv /\ [Next]_vars => (QInv /\ OInv)'
  BY NextQInv, NextOInv
<1> QED BY <1>1, <1>2, <1>3, InitQInv, PTL DEF Spec

-----------------------------------------------------------------------------
(***************************************************************************)
(* The queue as one line of messages: the suspended sendFront()s, the      *)
(* storage, the suspended send()s.  Every service of the kernel is one     *)
(* step of IdealQueue on that line, if the sendFront()s come first in the  *)
(* suspension list.  The lemmas cut and join sequences without naming      *)
(* positions: first the sequences, then the line, then the steps.          *)
(***************************************************************************)
\* A sequence that is cut after its first Len(a) elements.
LEMMA Cut ==
    ASSUME NEW S, NEW a \in Seq(S), NEW b \in Seq(S)
    PROVE  /\ a \o b \in Seq(S) /\ Len(a \o b) = Len(a) + Len(b)
           /\ Len(a) \in Nat /\ Len(b) \in Nat
           /\ \A i \in 1..Len(a) : (a \o b)[i] = a[i]
           /\ \A i \in 1..Len(b) : (a \o b)[Len(a) + i] = b[i]
<1> DEFINE l == a \o b
<1>1. /\ l \in Seq(S) /\ Len(l) = Len(a) + Len(b) /\ Len(a) \in Nat /\ Len(b) \in Nat
      /\ \A i \in 1..Len(a) + Len(b) : l[i] = IF i <= Len(a) THEN a[i] ELSE b[i - Len(a)]
  BY ConcatProperties, LenProperties
<1> HIDE DEF l
<1>2. \A i \in 1..Len(a) : l[i] = a[i]
  BY <1>1
<1>3. \A i \in 1..Len(b) : l[Len(a) + i] = b[i]
  BY <1>1, SMTT(30)
<1> QED BY <1>1, <1>2, <1>3 DEF l

\* Its two parts are the subsequences before and after the cut.
LEMMA CutParts ==
    ASSUME NEW S, NEW a \in Seq(S), NEW b \in Seq(S)
    PROVE  /\ SubSeq(a \o b, 1, Len(a)) = a
           /\ SubSeq(a \o b, Len(a) + 1, Len(a \o b)) = b
<1> DEFINE l == a \o b
           u == SubSeq(l, 1, Len(a))
           v == SubSeq(l, Len(a) + 1, Len(l))
<1>1. /\ l \in Seq(S) /\ Len(l) = Len(a) + Len(b) /\ Len(a) \in Nat /\ Len(b) \in Nat
      /\ \A i \in 1..Len(a) : l[i] = a[i]
      /\ \A i \in 1..Len(b) : l[Len(a) + i] = b[i]
  BY Cut
<1> HIDE DEF l
<1>2. \A i \in 1..Len(l) : l[i] \in S
  BY <1>1
<1>3. u \in Seq(S) /\ Len(u) = Len(a) /\ \A i \in 1..Len(a) : u[i] = l[i]
  BY <1>1, <1>2, SubSeqProperties
<1>4. v \in Seq(S) /\ Len(v) = Len(b) /\ \A i \in 1..Len(b) : v[i] = l[Len(a) + i]
  BY <1>1, <1>2, SubSeqProperties
<1> HIDE DEF u, v
<1>5. u = a
  BY <1>1, <1>3, SeqEqual
<1>6. v = b
  BY <1>1, <1>4, SeqEqual
<1> QED BY <1>5, <1>6 DEF u, v, l

\* What Around puts about s, with the cut known.
LEMMA CutAround ==
    ASSUME NEW S, NEW s \in Seq(S), NEW a \in Seq(S), NEW b \in Seq(S)
    PROVE  Around(s, Len(a), a \o b) = (a \o s) \o b
<1> DEFINE o == a \o b
           p == SubSeq(o, 1, Len(a))
           q == SubSeq(o, Len(a) + 1, Len(o))
<1>1. p = a /\ q = b
  BY CutParts
<1>2. Around(s, Len(a), o) = (p \o s) \o q
  BY DEF Around
<1> QED BY <1>1, <1>2

\* RemoveAt takes out the element between two parts.
LEMMA CutRemove ==
    ASSUME NEW S, NEW u \in Seq(S), NEW v \in Seq(S), NEW x \in S
    PROVE  /\ RemoveAt(Inserted(u, x, v), Len(u) + 1) = u \o v
           /\ Inserted(u, x, v)[Len(u) + 1] = x
           /\ Len(u) + 1 \in 1..Len(Inserted(u, x, v))
<1> DEFINE r == <<x>> \o v
           l == u \o r
           k == u \o <<x>>
<1>1. /\ r \in Seq(S) /\ Len(r) = Len(v) + 1 /\ Len(v) \in Nat /\ r[1] = x
      /\ k \in Seq(S) /\ Len(k) = Len(u) + 1 /\ l = k \o v /\ Len(u) \in Nat
  OBVIOUS
<1> HIDE DEF r, k
<1>2. Len(l) = Len(u) + Len(r) /\ Len(u) + 1 \in 1..Len(l)
  <2>1. r \in Seq(S) /\ Len(u) \in Nat
    BY <1>1
  <2>2. Len(l) = Len(u) + Len(r)
    BY <2>1
  <2> QED BY <1>1, <2>2
<1>7. l[Len(u) + 1] = x
  <2>1. l[Len(u) + 1] = r[1]
    BY <1>1
  <2> QED BY <1>1, <2>1
<1>6. SubSeq(l, 1, Len(u)) = u
  BY <1>1, CutParts
<1>3. SubSeq(l, Len(k) + 1, Len(l)) = v
  BY <1>1, CutParts
<1> HIDE DEF l
<1>5. RemoveAt(l, Len(u) + 1) = u \o v
  <2>1. PICK i : i = Len(u) + 1
    OBVIOUS
  <2>2. i - 1 = Len(u) /\ i + 1 = Len(k) + 1
    BY <1>1, <2>1
  <2>3. RemoveAt(l, i) = SubSeq(l, 1, i - 1) \o SubSeq(l, i + 1, Len(l))
    BY DEF RemoveAt
  <2>4. SubSeq(l, 1, i - 1) = u /\ SubSeq(l, i + 1, Len(l)) = v
    BY <1>3, <1>6, <2>2
  <2> HIDE DEF r
  <2> QED BY <2>1, <2>3, <2>4, Zenon
<1> QED
  <2>1. l = Inserted(u, x, v)
    BY DEF l, r, Inserted
  <2> QED BY <1>2, <1>5, <1>7, <2>1, Zenon

\* Every element can be cut out.
LEMMA CutOut ==
    ASSUME NEW S, NEW s \in Seq(S), NEW i \in 1..Len(s)
    PROVE  \E u, v \in Seq(S) : s = u \o (<<s[i]>> \o v) /\ Len(u) = i - 1
<1> DEFINE u == SubSeq(s, 1, i - 1)
           w == SubSeq(s, i, Len(s))
           v == SubSeq(s, i + 1, Len(s))
<1>1. Len(s) \in Nat /\ \A k \in 1..Len(s) : s[k] \in S
  OBVIOUS
<1>2. u \in Seq(S) /\ Len(u) = i - 1 /\ v \in Seq(S)
  BY <1>1, SubSeqProperties
<1>3. s = u \o w
  <2>1. 1 \in 1..Len(s) + 1 /\ i - 1 \in 1 - 1..Len(s) /\ Len(s) \in i - 1..Len(s) /\ i - 1 + 1 = i
    BY <1>1
  <2>2. SubSeq(s, 1, i - 1) \o SubSeq(s, i - 1 + 1, Len(s)) = SubSeq(s, 1, Len(s))
    BY <2>1, ConcatAdjacentSubSeq
  <2>3. SubSeq(s, 1, Len(s)) = s
    BY SubSeqFull
  <2> QED BY <2>1, <2>2, <2>3
<1>4. w = <<s[i]>> \o v
  <2>1. Len(s) \in i..Len(s)
    BY <1>1
  <2> QED BY <2>1, SubSeqRecursiveFirst
<1> QED BY <1>2, <1>3, <1>4

\* The messages of the threads in w, in order.
Carried(g, w) == [i \in 1..Len(w) |-> g[w[i]]]

LEMMA CarriedTyped ==
    ASSUME NEW g \in [Contexts -> Slots], NEW w \in Seq(Contexts)
    PROVE  /\ Carried(g, w) \in Seq(Slots) /\ Len(Carried(g, w)) = Len(w)
           /\ \A i \in 1..Len(w) : Carried(g, w)[i] = g[w[i]]
  BY DEF Carried

LEMMA CarriedCut ==
    ASSUME NEW g \in [Contexts -> Slots], NEW a \in Seq(Contexts), NEW b \in Seq(Contexts)
    PROVE  Carried(g, a \o b) = Carried(g, a) \o Carried(g, b)
<1> DEFINE l == a \o b
           p == Carried(g, a)
           q == Carried(g, b)
           u == Carried(g, l)
           v == p \o q
<1>1. /\ l \in Seq(Contexts) /\ Len(l) = Len(a) + Len(b) /\ Len(a) \in Nat /\ Len(b) \in Nat
      /\ \A i \in 1..Len(a) : l[i] = a[i]
      /\ \A i \in 1..Len(b) : l[Len(a) + i] = b[i]
  BY Cut
<1> HIDE DEF l
<1>2. /\ p \in Seq(Slots) /\ Len(p) = Len(a) /\ \A i \in 1..Len(a) : p[i] = g[a[i]]
      /\ q \in Seq(Slots) /\ Len(q) = Len(b) /\ \A i \in 1..Len(b) : q[i] = g[b[i]]
  BY DEF Carried
<1> HIDE DEF p, q
<1>3. u \in Seq(Slots) /\ Len(u) = Len(l) /\ \A i \in 1..Len(l) : u[i] = g[l[i]]
  BY <1>1 DEF Carried
<1>4. /\ v \in Seq(Slots) /\ Len(v) = Len(p) + Len(q)
      /\ \A i \in 1..Len(p) : v[i] = p[i]
      /\ \A i \in 1..Len(q) : v[Len(p) + i] = q[i]
  <2>1. p \in Seq(Slots) /\ q \in Seq(Slots)
    BY <1>2
  <2>2. /\ v \in Seq(Slots) /\ Len(v) = Len(p) + Len(q) /\ Len(p) \in Nat
        /\ \A i \in 1..Len(p) + Len(q) : v[i] = IF i <= Len(p) THEN p[i] ELSE q[i - Len(p)]
    BY <2>1
  <2> HIDE DEF v
  <2>3. Len(q) \in Nat
    BY <2>1
  <2>4. ASSUME NEW i \in 1..Len(q) PROVE v[Len(p) + i] = q[i]
    <3>1. /\ Len(p) + i \in 1..Len(p) + Len(q) /\ ~(Len(p) + i <= Len(p))
          /\ (Len(p) + i) - Len(p) = i
      BY <2>2, <2>3
    <3> QED BY <2>2, <3>1
  <2>5. \A i \in 1..Len(p) : v[i] = p[i]
    BY <2>2, <2>3
  <2> QED BY <2>2, <2>4, <2>5
<1> HIDE DEF u, v
<1>5. ASSUME NEW i \in 1..Len(u) PROVE u[i] = v[i]
  <2>1. CASE i <= Len(a)
    BY <1>1, <1>2, <1>3, <1>4, <2>1
  <2>2. CASE ~(i <= Len(a))
    <3>1. i - Len(a) \in 1..Len(b) /\ Len(a) + (i - Len(a)) = i
      BY <1>1, <1>3, <2>2
    <3>2. PICK k \in 1..Len(b) : i = Len(a) + k
      BY <3>1
    <3>3. l[i] = b[k] /\ v[i] = q[k] /\ q[k] = g[b[k]]
      BY <1>1, <1>2, <1>4, <3>2
    <3> QED BY <1>3, <3>3
  <2> QED BY <2>1, <2>2
<1>6. u = v
  BY <1>1, <1>2, <1>3, <1>4, <1>5, SeqEqual
<1> QED BY <1>6 DEF u, v, p, q, l

LEMMA CarriedOne ==
    \A g \in [Contexts -> Slots], t \in Contexts :
       Carried(g, <<t>>) = <<g[t]>> /\ <<g[t]>> \in Seq(Slots) /\ <<t>> \in Seq(Contexts)
<1> SUFFICES ASSUME NEW g \in [Contexts -> Slots], NEW t \in Contexts
             PROVE  Carried(g, <<t>>) = <<g[t]>> /\ <<g[t]>> \in Seq(Slots) /\ <<t>> \in Seq(Contexts)
  OBVIOUS
<1>1. <<t>> \in Seq(Contexts) /\ Len(<<t>>) = 1 /\ <<t>>[1] = t
  OBVIOUS
<1>2. <<g[t]>> \in Seq(Slots) /\ Len(<<g[t]>>) = 1 /\ <<g[t]>>[1] = g[t]
  OBVIOUS
<1>3. /\ Carried(g, <<t>>) \in Seq(Slots) /\ Len(Carried(g, <<t>>)) = 1
      /\ Carried(g, <<t>>)[1] = g[t]
  BY <1>1 DEF Carried
<1>4. Carried(g, <<t>>) = <<g[t]>>
  <2> DEFINE p == Carried(g, <<t>>)
             q == <<g[t]>>
  <2>1. /\ p \in Seq(Slots) /\ q \in Seq(Slots) /\ Len(p) = Len(q)
        /\ \A i \in 1..Len(p) : p[i] = q[i]
    BY <1>2, <1>3
  <2> HIDE DEF p, q
  <2>2. p = q
    BY <2>1, SeqEqual
  <2> QED BY <2>2 DEF p, q
<1> QED BY <1>1, <1>2, <1>4

LEMMA CarriedNone == ASSUME NEW g PROVE Carried(g, <<>>) = <<>>
  BY DEF Carried

\* InsertAt puts an element between two parts.
LEMMA CutInsert ==
    ASSUME NEW S, NEW u \in Seq(S), NEW v \in Seq(S), NEW x \in S
    PROVE  InsertAt(u \o v, Len(u) + 1, x) = (u \o <<x>>) \o v
<1> DEFINE l == u \o v
<1>1. SubSeq(l, 1, Len(u)) = u /\ SubSeq(l, Len(u) + 1, Len(l)) = v
  BY CutParts
<1> HIDE DEF l
<1>2. PICK i : i = Len(u) + 1
  OBVIOUS
<1>3. i - 1 = Len(u)
  BY <1>2
<1>4. InsertAt(l, i, x) = SubSeq(l, 1, i - 1) \o <<x>> \o SubSeq(l, i, Len(l))
  BY DEF InsertAt
<1>5. SubSeq(l, 1, i - 1) = u /\ SubSeq(l, i, Len(l)) = v
  BY <1>1, <1>2, <1>3
<1>6. InsertAt(l, i, x) = (u \o <<x>>) \o v
  BY <1>4, <1>5, Zenon
<1> QED BY <1>2, <1>6 DEF l

\* The line: what is before the storage s, and what is after it.
Join(p, s, q) == (p \o s) \o q

\* The line of messages, of what it depends on; the suspension list w holds
\* the senders to the front a and then the others b.
LineOf(s, w, d, g) ==
    Around(s, Cardinality({i \in 1..Len(w) : d[w[i]] = "sendFront"}),
           IF s = <<>> THEN <<>> ELSE Carried(g, w))

FrontsFirst(d, w, a, b) ==
    /\ a \in Seq(Contexts) /\ b \in Seq(Contexts) /\ w = a \o b
    /\ \A i \in 1..Len(a) : d[a[i]] = "sendFront"
    /\ \A i \in 1..Len(b) : d[b[i]] # "sendFront"

\* The cut is where Fronts says it is.
LEMMA FrontsCounted ==
    ASSUME NEW d, NEW w, NEW a, NEW b, FrontsFirst(d, w, a, b)
    PROVE  Cardinality({i \in 1..Len(w) : d[w[i]] = "sendFront"}) = Len(a)
<1> DEFINE F == {i \in 1..Len(w) : d[w[i]] = "sendFront"}
<1>1. a \in Seq(Contexts) /\ b \in Seq(Contexts) /\ w = a \o b
  BY DEF FrontsFirst
<1>2. /\ Len(w) = Len(a) + Len(b) /\ Len(a) \in Nat /\ Len(b) \in Nat
      /\ \A i \in 1..Len(a) : w[i] = a[i]
      /\ \A i \in 1..Len(b) : w[Len(a) + i] = b[i]
  BY <1>1, Cut
<1>3. ASSUME NEW i \in 1..Len(w) PROVE d[w[i]] = "sendFront" <=> i \in 1..Len(a)
  <2>1. CASE i \in 1..Len(a)
    BY <1>2, <2>1 DEF FrontsFirst
  <2>2. CASE i \notin 1..Len(a)
    <3>1. i - Len(a) \in 1..Len(b) /\ Len(a) + (i - Len(a)) = i
      BY <1>2, <2>2
    <3>2. w[i] = b[i - Len(a)]
      BY <1>2, <3>1
    <3> QED BY <2>2, <3>1, <3>2 DEF FrontsFirst
  <2> QED BY <2>1, <2>2
<1>4. F = 1..Len(a)
  BY <1>2, <1>3
<1>5. Cardinality(1..Len(a)) = Len(a)
  <2>1. PICK n \in Nat : n = Len(a)
    BY <1>2
  <2>2. 1 \in Int /\ n \in Int
    OBVIOUS
  <2>3. Cardinality(1..n) = IF 1 > n THEN 0 ELSE n - 1 + 1
    BY <2>2, FS_Interval
  <2>4. Cardinality(1..n) = n
    BY <2>3
  <2> QED BY <2>1, <2>4
<1> QED BY <1>4, <1>5

\* With the list cut into sendFront()s and others, the line is a join.
LEMMA LineCut ==
    ASSUME NEW s \in Seq(Slots), s # <<>>, NEW g \in [Contexts -> Slots],
           NEW d, NEW w, NEW a, NEW b, FrontsFirst(d, w, a, b)
    PROVE  /\ LineOf(s, w, d, g) = Join(Carried(g, a), s, Carried(g, b))
           /\ Carried(g, a) \in Seq(Slots) /\ Carried(g, b) \in Seq(Slots)
           /\ Len(Carried(g, a)) = Len(a) /\ Len(Carried(g, b)) = Len(b)
<1> DEFINE p == Carried(g, a)
           q == Carried(g, b)
<1>1. a \in Seq(Contexts) /\ b \in Seq(Contexts) /\ w = a \o b
  BY DEF FrontsFirst
<1>2. p \in Seq(Slots) /\ q \in Seq(Slots) /\ Len(p) = Len(a) /\ Len(q) = Len(b)
  <2>1. ASSUME NEW u \in Seq(Contexts)
        PROVE  Carried(g, u) \in Seq(Slots) /\ Len(Carried(g, u)) = Len(u)
    BY <2>1, CarriedTyped
  <2> QED BY <1>1, <2>1
<1>3. Carried(g, w) = p \o q
  <2>1. ASSUME NEW u \in Seq(Contexts), NEW v \in Seq(Contexts)
        PROVE  Carried(g, u \o v) = Carried(g, u) \o Carried(g, v)
    BY <2>1, CarriedCut
  <2> QED BY <1>1, <2>1
<1>4. LineOf(s, w, d, g) = Around(s, Len(p), p \o q)
  BY <1>2, <1>3, FrontsCounted DEF LineOf
<1> HIDE DEF p, q
<1>5. Around(s, Len(p), p \o q) = (p \o s) \o q
  BY <1>2, CutAround
<1> QED BY <1>2, <1>4, <1>5 DEF p, q, Join

\* Nobody is suspended.
LEMMA LineAlone ==
    ASSUME NEW s \in Seq(Slots), NEW d, NEW g
    PROVE  LineOf(s, <<>>, d, g) = s /\ FrontsFirst(d, <<>>, <<>>, <<>>)
<1> DEFINE e == <<>>
<1>1. e \in Seq(Contexts) /\ e \in Seq(Slots) /\ e \o e = e /\ Len(e) = 0
  OBVIOUS
<1>2. Carried(g, e) = e
  BY CarriedNone
<1>3. FrontsFirst(d, e, e, e)
  BY <1>1 DEF FrontsFirst
<1>4. LineOf(s, e, d, g) = Around(s, Len(e), e \o e)
  BY <1>1, <1>2, <1>3, FrontsCounted DEF LineOf
<1>5. Around(s, Len(e), e \o e) = (e \o s) \o e
  BY <1>1, CutAround
<1>6. (e \o s) \o e = s
  OBVIOUS
<1> QED BY <1>3, <1>4, <1>5, <1>6

\* Nothing is stored: only receivers are suspended.
LEMMA LineIdle ==
    ASSUME NEW d, NEW g, NEW w \in Seq(Contexts), \A i \in 1..Len(w) : d[w[i]] = "receive"
    PROVE  LineOf(<<>>, w, d, g) = <<>> /\ FrontsFirst(d, w, <<>>, w)
<1> DEFINE e == <<>>
<1>1. e \in Seq(Contexts) /\ e \in Seq(Slots) /\ e \o w = w /\ e \o e = e /\ Len(e) = 0
  OBVIOUS
<1>3. FrontsFirst(d, w, e, w)
  BY <1>1 DEF FrontsFirst
<1>4. LineOf(e, w, d, g) = Around(e, Len(e), e \o e)
  BY <1>1, <1>3, FrontsCounted DEF LineOf
<1>5. Around(e, Len(e), e \o e) = (e \o e) \o e
  BY <1>1, CutAround
<1> QED BY <1>1, <1>3, <1>4, <1>5

\* What the suspended contexts do and send has not changed.
LEMMA LineSame ==
    ASSUME NEW s, NEW w, NEW d, NEW g, NEW e, NEW f,
           \A i \in 1..Len(w) : e[w[i]] = d[w[i]] /\ f[w[i]] = g[w[i]]
    PROVE  LineOf(s, w, e, f) = LineOf(s, w, d, g)
<1>1. Carried(f, w) = Carried(g, w)
  BY DEF Carried
<1>2. {i \in 1..Len(w) : e[w[i]] = "sendFront"} = {i \in 1..Len(w) : d[w[i]] = "sendFront"}
  OBVIOUS
<1> QED BY <1>1, <1>2, Zenon DEF LineOf

LEMMA FrontsSame ==
    ASSUME NEW w, NEW d, NEW e, NEW a, NEW b, FrontsFirst(d, w, a, b),
           \A i \in 1..Len(w) : e[w[i]] = d[w[i]]
    PROVE  FrontsFirst(e, w, a, b)
<1>1. a \in Seq(Contexts) /\ b \in Seq(Contexts) /\ w = a \o b
  BY DEF FrontsFirst
<1>2. /\ Len(w) = Len(a) + Len(b) /\ Len(a) \in Nat /\ Len(b) \in Nat
      /\ \A i \in 1..Len(a) : w[i] = a[i]
      /\ \A i \in 1..Len(b) : w[Len(a) + i] = b[i]
  BY <1>1, Cut
<1>3. ASSUME NEW i \in 1..Len(a) PROVE e[a[i]] = d[a[i]]
  <2>1. i \in 1..Len(w) /\ w[i] = a[i]
    BY <1>2
  <2> QED BY <2>1
<1>4. ASSUME NEW i \in 1..Len(b) PROVE e[b[i]] = d[b[i]]
  <2>1. Len(a) + i \in 1..Len(w) /\ w[Len(a) + i] = b[i]
    BY <1>2
  <2> QED BY <2>1
<1> QED BY <1>1, <1>3, <1>4 DEF FrontsFirst

-----------------------------------------------------------------------------
\* The line of the refinement mapping, and the invariant the argument needs.
Line == Around(stored, Fronts, Offers)

FInv == \E a, b : FrontsFirst(doing, waiters, a, b)

\* A step of the queue keeps the list cut and is a step of the line.
Step == FInv' /\ [Ideal!Next]_<<Line, got>>

LEMMA LineIs ==
    /\ Line = LineOf(stored, waiters, doing, sending)
    /\ Line' = LineOf(stored', waiters', doing', sending')
  BY DEF Line, LineOf, Fronts, Offers, Carried

LEMMA WaitersTyped ==
    ASSUME QInv
    PROVE  /\ waiters \in Seq(Contexts) /\ waiters \in Seq(Threads) /\ Threads \subseteq Contexts
           /\ stored \in Seq(Slots) /\ sending \in [Contexts -> Slots]
           /\ got \in Seq(Slots)
<1>1. waiters \in Seq(Threads) /\ stored \in Seq(Slots)
  BY Lists
<1>2. waiters \in Seq(Contexts)
  BY <1>1 DEF Contexts
<1> QED BY <1>1, <1>2 DEF QInv, IInv, Contexts

LEMMA ReceiversWait ==
    ASSUME IInv, stored = <<>>
    PROVE  waiters \in Seq(Contexts) /\ \A i \in 1..Len(waiters) : doing[waiters[i]] = "receive"
<1>1. \A t \in Threads : MustWait(t) => doing[t] = "receive"
  BY QueueAssumption DEF MustWait
<1>2. {t \in Threads : MustWait(t)} \subseteq {t \in Contexts : doing[t] = "receive"}
  BY <1>1 DEF Contexts
<1>3. waiters \in Seq({t \in Threads : MustWait(t)})
  BY DEF IInv
<1> QED BY <1>2, <1>3

LEMMA ReceiversWaitThen ==
    ASSUME IInv', stored' = <<>>
    PROVE  waiters' \in Seq(Contexts) /\ \A i \in 1..Len(waiters') : doing'[waiters'[i]] = "receive"
<1>1. \A t \in Threads : MustWait(t)' => doing'[t] = "receive"
  BY QueueAssumption DEF MustWait
<1>2. {t \in Threads : MustWait(t)'} \subseteq {t \in Contexts : doing'[t] = "receive"}
  BY <1>1 DEF Contexts
<1>3. waiters' \in Seq({t \in Threads : MustWait(t)'})
  BY DEF IInv
<1> QED BY <1>2, <1>3

\* Nothing is stored, so that only receivers are suspended.
LEMMA IdleNow == ASSUME IInv, stored = <<>> PROVE Line = <<>>
<1>1. LineOf(<<>>, waiters, doing, sending) = <<>>
  BY ReceiversWait, LineIdle
<1> QED BY <1>1, LineIs

LEMMA IdleThen == ASSUME IInv', stored' = <<>> PROVE Line' = <<>> /\ FInv'
<1>1. /\ LineOf(<<>>, waiters', doing', sending') = <<>>
      /\ FrontsFirst(doing', waiters', <<>>, waiters')
  BY ReceiversWaitThen, LineIdle
<1> QED BY <1>1, LineIs DEF FInv

\* Nobody is suspended.
LEMMA AloneNow == ASSUME stored \in Seq(Slots), waiters = <<>> PROVE Line = stored
<1>1. LineOf(stored, <<>>, doing, sending) = stored
  BY LineAlone
<1> QED BY <1>1, LineIs

LEMMA AloneThen ==
    ASSUME stored' \in Seq(Slots), waiters' = <<>> PROVE Line' = stored' /\ FInv'
<1>1. LineOf(stored', <<>>, doing', sending') = stored' /\ FrontsFirst(doing', <<>>, <<>>, <<>>)
  BY LineAlone
<1> QED BY <1>1, LineIs DEF FInv

\* Messages are stored, so that the suspended are senders.
LEMMA CutNow ==
    ASSUME QInv, stored # <<>>, NEW a, NEW b, FrontsFirst(doing, waiters, a, b)
    PROVE  /\ Line = Join(Carried(sending, a), stored, Carried(sending, b))
           /\ Carried(sending, a) \in Seq(Slots) /\ Carried(sending, b) \in Seq(Slots)
           /\ Len(Carried(sending, a)) = Len(a) /\ Len(Carried(sending, b)) = Len(b)
<1>1. stored \in Seq(Slots) /\ sending \in [Contexts -> Slots]
  BY WaitersTyped
<1> QED BY <1>1, LineCut, LineIs

LEMMA CutThen ==
    ASSUME IInv', stored' # <<>>, NEW a, NEW b, FrontsFirst(doing', waiters', a, b)
    PROVE  Line' = Join(Carried(sending', a), stored', Carried(sending', b)) /\ FInv'
<1>1. stored' \in Seq(Slots) /\ sending' \in [Contexts -> Slots]
  BY DEF IInv
<1>2. LineOf(stored', waiters', doing', sending')
      = Join(Carried(sending', a), stored', Carried(sending', b))
  BY <1>1, LineCut
<1> QED BY <1>2, LineIs DEF FInv

\* Nothing that is suspended has changed.
LEMMA SameThen ==
    ASSUME FInv, UNCHANGED <<stored, waiters>>,
           \A i \in 1..Len(waiters) : /\ doing'[waiters[i]] = doing[waiters[i]]
                                      /\ sending'[waiters[i]] = sending[waiters[i]]
    PROVE  Line' = Line /\ FInv'
<1>1. LineOf(stored, waiters, doing', sending') = LineOf(stored, waiters, doing, sending)
  BY LineSame
<1>2. PICK a, b : FrontsFirst(doing, waiters, a, b)
  BY DEF FInv
<1>3. FrontsFirst(doing', waiters, a, b)
  BY <1>2, FrontsSame
<1> QED BY <1>1, <1>3, LineIs DEF FInv

LEMMA IsMessage ==
    ASSUME QInv, NEW c \in Senders, NEW h \in {"send", "sendFront"}, NEW e, Sends(c, h, e)
    PROVE  /\ Message(c, h) \in {m \in Messages : m.how = h} /\ Message(c, h) \in Slots
           /\ \A t \in Contexts : sending'[t] = IF t = c THEN Message(c, h) ELSE sending[t]
           /\ \A i \in 1..Len(waiters) : waiters[i] # c
<1>1. sent + 1 \in 1..MaxSent
  BY QueueAssumption DEF Sends, QInv, IInv
<1>2. Message(c, h) \in Messages /\ Message(c, h).how = h
  BY <1>1 DEF Message, Messages
<1>3. \A i \in 1..Len(waiters) : waiters[i] # c
  BY DEF Sends, Runs, IsWaiting
<1>4. sending \in [Contexts -> Slots]
  BY WaitersTyped
<1>5. sending' = [sending EXCEPT ![c] = Message(c, h)]
  BY DEF Sends
<1> QED BY <1>2, <1>3, <1>4, <1>5 DEF Slots

\* The abstract steps, with the line named.
LEMMA AbstractSteps ==
    ASSUME \/ Line' = Line /\ got' = got
           \/ \E m \in Messages : m.how = "send" /\ Line' = Append(Line, m) /\ got' = got
           \/ \E m \in Messages : m.how = "sendFront" /\ Line' = <<m>> \o Line /\ got' = got
           \/ \E m \in Messages : /\ m.how \in {"send", "sendFront"} /\ Line = <<>>
                                  /\ got' = Append(got, m) /\ Line' = Line
           \/ Line # <<>> /\ got' = Append(got, Head(Line)) /\ Line' = Tail(Line)
           \/ \E i \in 1..Len(Line) : Line' = RemoveAt(Line, i) /\ got' = got
           \/ \E i \in 1..Len(Line) : \E k \in 1..i :
                 Line' = InsertAt(RemoveAt(Line, i), k, Line[i]) /\ got' = got
           \/ Line' = <<>> /\ got' = got
    PROVE  [Ideal!Next]_<<Line, got>>
<1>1. CASE Line' = Line /\ got' = got
  BY <1>1
<1>2. CASE \E m \in Messages : m.how = "send" /\ Line' = Append(Line, m) /\ got' = got
  BY <1>2 DEF Ideal!Next, Ideal!Send, Line
<1>3. CASE \E m \in Messages : m.how = "sendFront" /\ Line' = <<m>> \o Line /\ got' = got
  BY <1>3 DEF Ideal!Next, Ideal!SendFront, Line
<1>4. CASE \E m \in Messages : /\ m.how \in {"send", "sendFront"} /\ Line = <<>>
                               /\ got' = Append(got, m) /\ Line' = Line
  BY <1>4 DEF Ideal!Next, Ideal!Hand, Line
<1>5. CASE Line # <<>> /\ got' = Append(got, Head(Line)) /\ Line' = Tail(Line)
  BY <1>5 DEF Ideal!Next, Ideal!Receive, Line
<1>6. CASE \E i \in 1..Len(Line) : Line' = RemoveAt(Line, i) /\ got' = got
  <2>1. PICK i \in 1..Len(Line) : Line' = RemoveAt(Line, i) /\ got' = got
    BY <1>6
  <2>2. Ideal!RemoveAt(Line, i) = RemoveAt(Line, i)
    BY DEF Ideal!RemoveAt, RemoveAt
  <2>3. Ideal!GiveUp
    BY <2>1, <2>2, Zenon DEF Ideal!GiveUp, Line
  <2> QED BY <2>3 DEF Ideal!Next
<1>7. CASE \E i \in 1..Len(Line) : \E k \in 1..i :
               Line' = InsertAt(RemoveAt(Line, i), k, Line[i]) /\ got' = got
  <2>0. PICK i \in 1..Len(Line) : \E k \in 1..i :
              Line' = InsertAt(RemoveAt(Line, i), k, Line[i]) /\ got' = got
    BY <1>7
  <2>1. PICK k \in 1..i : Line' = InsertAt(RemoveAt(Line, i), k, Line[i]) /\ got' = got
    BY <2>0
  <2>2. Ideal!InsertAt(Ideal!RemoveAt(Line, i), k, Line[i]) = InsertAt(RemoveAt(Line, i), k, Line[i])
    BY DEF Ideal!RemoveAt, RemoveAt, Ideal!InsertAt, InsertAt
  <2>3. Ideal!Prioritise
    BY <2>1, <2>2, Zenon DEF Ideal!Prioritise, Line
  <2> QED BY <2>3 DEF Ideal!Next
<1>8. CASE Line' = <<>> /\ got' = got
  BY <1>8 DEF Ideal!Next, Ideal!Flush, Line
<1> QED BY <1>1, <1>2, <1>3, <1>4, <1>5, <1>6, <1>7, <1>8, Zenon

-----------------------------------------------------------------------------
\* What the services do to a join.
LEMMA JoinLast ==
    ASSUME NEW S, NEW p \in Seq(S), NEW s \in Seq(S), NEW q \in Seq(S), NEW m \in S
    PROVE  Join(p, s, q \o <<m>>) = Append(Join(p, s, q), m)
  BY DEF Join

LEMMA JoinFirst ==
    ASSUME NEW S, NEW p \in Seq(S), NEW s \in Seq(S), NEW q \in Seq(S), NEW m \in S
    PROVE  Join(p, s, q) \in Seq(S) /\ Join(<<m>> \o p, s, q) = <<m>> \o Join(p, s, q)
  BY DEF Join

LEMMA Admit ==
    ASSUME NEW S, NEW s \in Seq(S), NEW q \in Seq(S), NEW m \in S, s # <<>>
    PROVE  /\ Join(<<>>, s, <<m>> \o q) # <<>>
           /\ Head(Join(<<>>, s, <<m>> \o q)) = Head(s)
           /\ Tail(Join(<<>>, s, <<m>> \o q)) = Join(<<>>, Append(Tail(s), m), q)
<1> DEFINE h == Head(s)
           t == Tail(s)
<1>1. h \in S /\ t \in Seq(S) /\ s = <<h>> \o t
  OBVIOUS
<1> HIDE DEF h, t
<1>2. Join(<<>>, s, <<m>> \o q) = <<h>> \o (t \o (<<m>> \o q))
  BY <1>1 DEF Join
<1> DEFINE l == t \o (<<m>> \o q)
<1>3. l \in Seq(S)
  BY <1>1
<1>5. Join(<<>>, Append(t, m), q) = l
  BY <1>1 DEF Join
<1> HIDE DEF l
<1>4. <<h>> \o l # <<>> /\ Head(<<h>> \o l) = h /\ Tail(<<h>> \o l) = l
  BY <1>1, <1>3
<1> QED BY <1>2, <1>4, <1>5, Zenon DEF h, t, l

\* One element is taken out; one is moved forward.
Removed(l, k) == \E i \in 1..Len(l) : k = RemoveAt(l, i)
Moved(l, k) == \E i \in 1..Len(l) : \E n \in 1..i : k = InsertAt(RemoveAt(l, i), n, l[i])

LEMMA RemoveOne ==
    ASSUME NEW S, NEW u \in Seq(S), NEW m \in S, NEW v \in Seq(S)
    PROVE  Removed(Inserted(u, m, v), u \o v)
<1>1. /\ RemoveAt(Inserted(u, m, v), Len(u) + 1) = u \o v
      /\ Len(u) + 1 \in 1..Len(Inserted(u, m, v))
  BY CutRemove
<1> QED BY <1>1, Zenon DEF Removed

LEMMA RemoveFront ==
    ASSUME NEW u \in Seq(Slots), NEW m \in Slots, NEW v \in Seq(Slots),
           NEW s \in Seq(Slots), NEW q \in Seq(Slots)
    PROVE  Removed(Join(u \o (<<m>> \o v), s, q), Join(u \o v, s, q))
<1> DEFINE w == (v \o s) \o q
<1>1. w \in Seq(Slots)
  OBVIOUS
<1>2. ((u \o (<<m>> \o v)) \o s) \o q = u \o (<<m>> \o w)
  <2> DEFINE c == <<m>> \o v
  <2>1. c \in Seq(Slots) /\ (c \o s) \o q = <<m>> \o ((v \o s) \o q)
    OBVIOUS
  <2> HIDE DEF c
  <2>2. ((u \o c) \o s) \o q = u \o ((c \o s) \o q)
    <3> DEFINE d == c \o s
    <3>1. d \in Seq(Slots) /\ (u \o c) \o s = u \o d
      BY <2>1, SMTT(30)
    <3> HIDE DEF d
    <3>2. (u \o d) \o q = u \o (d \o q)
      BY <3>1, SMTT(30)
    <3> QED BY <3>1, <3>2, Zenon DEF d
  <2> QED BY <2>1, <2>2, Zenon DEF c
<1>4. ((u \o v) \o s) \o q = u \o w
  BY SMTT(30)
<1> HIDE DEF w
<1>3. Removed(Inserted(u, m, w), u \o w)
  BY <1>1, RemoveOne
<1> QED BY <1>2, <1>3, <1>4, Zenon DEF Inserted, Join

LEMMA RemoveBack ==
    ASSUME NEW u \in Seq(Slots), NEW m \in Slots, NEW v \in Seq(Slots),
           NEW s \in Seq(Slots), NEW p \in Seq(Slots)
    PROVE  Removed(Join(p, s, u \o (<<m>> \o v)), Join(p, s, u \o v))
<1> DEFINE w == (p \o s) \o u
<1>1. w \in Seq(Slots)
  OBVIOUS
<1>2. (p \o s) \o (u \o (<<m>> \o v)) = w \o (<<m>> \o v)
  <2> DEFINE c == <<m>> \o v
  <2>1. c \in Seq(Slots)
    OBVIOUS
  <2> HIDE DEF c
  <2> QED BY <2>1, SMTT(30)
<1>4. (p \o s) \o (u \o v) = w \o v
  OBVIOUS
<1> HIDE DEF w
<1>3. Removed(Inserted(w, m, v), w \o v)
  BY <1>1, RemoveOne
<1> QED BY <1>2, <1>3, <1>4, Zenon DEF Inserted, Join

LEMMA MoveBack ==
    ASSUME NEW u \in Seq(Slots), NEW m \in Slots, NEW v \in Seq(Slots), NEW s \in Seq(Slots)
    PROVE  Moved(Join(<<>>, s, u \o (<<m>> \o v)), Join(<<>>, s, <<m>> \o (u \o v)))
<1> DEFINE l == Join(<<>>, s, u \o (<<m>> \o v))
           w == s \o u
<1>1. w \in Seq(Slots)
  OBVIOUS
<1>2. l = w \o (<<m>> \o v) /\ Len(w) = Len(s) + Len(u) /\ Len(s) \in Nat /\ Len(u) \in Nat
  BY DEF Join
<1> DEFINE x == u \o v
<1>4. x \in Seq(Slots)
  OBVIOUS
<1>5. w \o v = s \o x /\ (s \o <<m>>) \o x = (<<>> \o s) \o (<<m>> \o x)
  <2>1. (s \o u) \o v = s \o (u \o v)
    BY ConcatAssociative
  <2>2. <<>> \o s = s /\ <<m>> \in Seq(Slots)
    BY ConcatEmptySeq
  <2> HIDE DEF x
  <2>3. (s \o <<m>>) \o x = s \o (<<m>> \o x)
    BY <1>4, <2>2, ConcatAssociative
  <2> QED BY <2>1, <2>2, <2>3, Zenon DEF x
<1> HIDE DEF w, x, l
<1>3. RemoveAt(l, Len(w) + 1) = w \o v /\ l[Len(w) + 1] = m /\ Len(w) + 1 \in 1..Len(l)
  <2>1. /\ RemoveAt(Inserted(w, m, v), Len(w) + 1) = w \o v
        /\ Inserted(w, m, v)[Len(w) + 1] = m
        /\ Len(w) + 1 \in 1..Len(Inserted(w, m, v))
    BY <1>1, CutRemove
  <2>2. l = Inserted(w, m, v)
    BY <1>2 DEF Inserted
  <2> QED BY <2>1, <2>2, Zenon
<1>6. InsertAt(s \o x, Len(s) + 1, m) = (s \o <<m>>) \o x
  BY <1>4, CutInsert
<1>7. Len(s) + 1 \in 1..Len(w) + 1
  BY <1>2
<1>8. Join(<<>>, s, <<m>> \o x) = InsertAt(RemoveAt(l, Len(w) + 1), Len(s) + 1, l[Len(w) + 1])
  BY <1>3, <1>5, <1>6, Zenon DEF Join
<1>9. Moved(l, Join(<<>>, s, <<m>> \o x))
  BY <1>3, <1>7, <1>8, Zenon DEF Moved
<1> QED BY <1>9 DEF l, x

LEMMA JoinEnd ==
    ASSUME NEW S, NEW p \in Seq(S), NEW q \in Seq(S), NEW m \in S
    PROVE  Append(p \o q, m) = p \o (q \o <<m>>)
  BY SMTT(30)

LEMMA FrontsAppend ==
    ASSUME NEW d, NEW w, NEW a, NEW b, FrontsFirst(d, w, a, b), NEW c \in Contexts,
           d[c] # "sendFront"
    PROVE  FrontsFirst(d, Append(w, c), a, b \o <<c>>)
<1>1. a \in Seq(Contexts) /\ b \in Seq(Contexts) /\ w = a \o b
  BY DEF FrontsFirst
<1> DEFINE q == b \o <<c>>
<1>2. /\ q \in Seq(Contexts) /\ Len(q) = Len(b) + 1 /\ q[Len(b) + 1] = c /\ Len(b) \in Nat
      /\ \A i \in 1..Len(b) : q[i] = b[i]
  BY <1>1
<1>3. Append(a \o b, c) = a \o q
  <2>1. a \in Seq(Contexts) /\ b \in Seq(Contexts)
    BY <1>1
  <2>2. ASSUME NEW u \in Seq(Contexts), NEW v \in Seq(Contexts)
        PROVE  Append(u \o v, c) = u \o (v \o <<c>>)
    BY <2>2, JoinEnd
  <2> QED BY <2>1, <2>2
<1> HIDE DEF q
<1>4. ASSUME NEW i \in 1..Len(q) PROVE d[q[i]] # "sendFront"
  <2>1. i \in 1..Len(b) \/ i = Len(b) + 1
    BY <1>2
  <2> QED BY <1>2, <2>1 DEF FrontsFirst
<1>5. FrontsFirst(d, Append(w, c), a, q)
  BY <1>1, <1>2, <1>3, <1>4 DEF FrontsFirst
<1> QED BY <1>5 DEF q

LEMMA FrontsCons ==
    ASSUME NEW d, NEW w, NEW a, NEW b, FrontsFirst(d, w, a, b), NEW c \in Contexts,
           d[c] = "sendFront"
    PROVE  FrontsFirst(d, <<c>> \o w, <<c>> \o a, b)
<1>1. a \in Seq(Contexts) /\ b \in Seq(Contexts) /\ w = a \o b
  BY DEF FrontsFirst
<1> DEFINE p == <<c>> \o a
<1>2. /\ p \in Seq(Contexts) /\ Len(p) = Len(a) + 1 /\ p[1] = c /\ Len(a) \in Nat
      /\ \A i \in 2..Len(p) : p[i] = a[i - 1]
  BY <1>1
<1>3. <<c>> \o (a \o b) = p \o b
  BY <1>1
<1> HIDE DEF p
<1>4. ASSUME NEW i \in 1..Len(p) PROVE d[p[i]] = "sendFront"
  <2>1. CASE i = 1
    BY <1>2, <2>1
  <2>2. CASE i # 1
    <3>1. i \in 2..Len(p) /\ i - 1 \in 1..Len(a)
      BY <1>2, <2>2
    <3> QED BY <1>2, <3>1 DEF FrontsFirst
  <2> QED BY <2>1, <2>2
<1>5. FrontsFirst(d, <<c>> \o w, p, b)
  BY <1>1, <1>2, <1>3, <1>4 DEF FrontsFirst
<1> QED BY <1>5 DEF p

\* A sender that is suspended offers its message.
LEMMA SuspendStep ==
    ASSUME QInv, IInv', FInv, NEW c \in Senders \cap Threads, NEW h \in {"send", "sendFront"},
           SuspendSender(c, h)
    PROVE  Step
<1> DEFINE m == Message(c, h)
<1>1. /\ c \in Contexts /\ Sends(c, h, "none") /\ stored' = stored /\ got' = got
      /\ doing' = [doing EXCEPT ![c] = h] /\ doing \in [Threads -> {"receive", "send", "sendFront"}]
      /\ waiters' = IF h = "send" THEN Append(waiters, c) ELSE <<c>> \o waiters
  BY DEF SuspendSender, QInv, IInv, Contexts
<1>2. stored # <<>> /\ stored \in Seq(Slots) /\ sending' \in [Contexts -> Slots]
  BY QueueAssumption DEF SuspendSender, QInv, IInv
<1>3. /\ m \in {x \in Messages : x.how = h} /\ m \in Slots /\ sending'[c] = m
      /\ \A t \in Contexts \ {c} : sending'[t] = sending[t]
      /\ \A i \in 1..Len(waiters) : waiters[i] # c
  BY <1>1, IsMessage
<1> HIDE DEF m
<1>4. \A i \in 1..Len(waiters) : waiters[i] \in Contexts /\ waiters[i] \in Threads
  BY WaitersTyped
<1>5. \A i \in 1..Len(waiters) : /\ doing'[waiters[i]] = doing[waiters[i]]
                                 /\ sending'[waiters[i]] = sending[waiters[i]]
  BY <1>1, <1>3, <1>4
<1>6. PICK a, b : FrontsFirst(doing, waiters, a, b)
  BY DEF FInv
<1>7. FrontsFirst(doing', waiters, a, b)
  BY <1>5, <1>6, FrontsSame
<1> DEFINE p == Carried(sending', a)
           q == Carried(sending', b)
<1>8. Line = Join(p, stored, q) /\ p \in Seq(Slots) /\ q \in Seq(Slots)
  <2>1. LineOf(stored, waiters, doing', sending') = Join(p, stored, q) /\ p \in Seq(Slots) /\ q \in Seq(Slots)
    BY <1>2, <1>7, LineCut
  <2>2. LineOf(stored, waiters, doing', sending') = LineOf(stored, waiters, doing, sending)
    BY <1>5, LineSame
  <2> QED BY <2>1, <2>2, LineIs
<1>9. a \in Seq(Contexts) /\ b \in Seq(Contexts)
  BY <1>6 DEF FrontsFirst
<1>10. Carried(sending', <<c>>) = <<m>> /\ <<c>> \in Seq(Contexts)
  BY <1>1, <1>2, <1>3, CarriedOne
<1>11. CASE h = "send"
  <2>1. doing'[c] # "sendFront" /\ waiters' = Append(waiters, c)
    BY <1>1, <1>11
  <2>2. FrontsFirst(doing', waiters', a, b \o <<c>>)
    BY <1>1, <1>7, <2>1, FrontsAppend
  <2>3. Line' = Join(p, stored, Carried(sending', b \o <<c>>)) /\ FInv'
    BY <1>1, <1>2, <2>2, CutThen
  <2>4. Carried(sending', b \o <<c>>) = q \o <<m>>
    BY <1>2, <1>9, <1>10, CarriedCut, ZenonT(30)
  <2> HIDE DEF p, q
  <2>5. Join(p, stored, q \o <<m>>) = Append(Join(p, stored, q), m)
    BY <1>2, <1>3, <1>8, JoinLast, SMTT(30)
  <2>6. Line' = Append(Line, m)
    BY <1>8, <2>3, <2>4, <2>5, Zenon
  <2>7. [Ideal!Next]_<<Line, got>>
    BY <1>1, <1>3, <1>11, <2>6, AbstractSteps
  <2> QED BY <2>3, <2>7 DEF Step
<1>12. CASE h = "sendFront"
  <2>1. doing'[c] = "sendFront" /\ waiters' = <<c>> \o waiters
    BY <1>1, <1>12
  <2>2. FrontsFirst(doing', waiters', <<c>> \o a, b)
    BY <1>1, <1>7, <2>1, FrontsCons
  <2>3. Line' = Join(Carried(sending', <<c>> \o a), stored, q) /\ FInv'
    BY <1>1, <1>2, <2>2, CutThen
  <2>4. Carried(sending', <<c>> \o a) = <<m>> \o p
    BY <1>2, <1>9, <1>10, CarriedCut, ZenonT(30)
  <2> HIDE DEF p, q
  <2>5. Join(<<m>> \o p, stored, q) = <<m>> \o Join(p, stored, q)
    <3>1. m \in Slots /\ p \in Seq(Slots) /\ stored \in Seq(Slots) /\ q \in Seq(Slots)
      BY <1>2, <1>3, <1>8
    <3> QED BY <3>1 DEF Join
  <2>6. Line' = <<m>> \o Line
    BY <1>8, <2>3, <2>4, <2>5, Zenon
  <2>7. [Ideal!Next]_<<Line, got>>
    BY <1>1, <1>3, <1>12, <2>6, AbstractSteps
  <2> QED BY <2>3, <2>7 DEF Step
<1> QED BY <1>11, <1>12

\* A send: its message goes to the storage, to a receiver or to the offers.
LEMMA SendStep ==
    ASSUME QInv, IInv', FInv, NEW c \in Senders, NEW h \in {"send", "sendFront"}, Send(c, h)
    PROVE  Step
<1> DEFINE m == Message(c, h)
<1>0. stored \in Seq(Slots) /\ stored' \in Seq(Slots)
  BY DEF QInv, IInv
<1>1. CASE Store(c, h)
  <2>1. /\ Sends(c, h, "success") /\ waiters = <<>> /\ waiters' = <<>> /\ got' = got
        /\ stored' = IF h = "send" THEN Append(stored, m) ELSE <<m>> \o stored
    BY <1>1 DEF Store
  <2>2. m \in {x \in Messages : x.how = h}
    BY <2>1, IsMessage
  <2>3. Line = stored /\ Line' = stored' /\ FInv'
    BY <1>0, <2>1, AloneNow, AloneThen
  <2> HIDE DEF m
  <2>4. [Ideal!Next]_<<Line, got>>
    BY <2>1, <2>2, <2>3, AbstractSteps
  <2> QED BY <2>3, <2>4 DEF Step
<1>2. CASE HandToReceiver(c, h)
  <2>1. /\ Sends(c, h, "success") /\ waiters # <<>> /\ Len(stored) < Capacity
        /\ stored' = stored /\ got' = Append(got, m)
    BY <1>2 DEF HandToReceiver
  <2>2. m \in {x \in Messages : x.how = h}
    BY <2>1, IsMessage
  <2>3. stored = <<>>
    <3>1. First \in Threads /\ MustWait(First)
      BY <2>1 DEF First, QInv, IInv
    <3> QED BY <2>1, <3>1, QueueAssumption DEF MustWait, QInv, IInv
  <2>4. Line = <<>> /\ Line' = <<>> /\ FInv'
    BY <2>1, <2>3, IdleNow, IdleThen DEF QInv
  <2> HIDE DEF m
  <2>5. [Ideal!Next]_<<Line, got>>
    BY <2>1, <2>2, <2>4, AbstractSteps
  <2> QED BY <2>4, <2>5 DEF Step
<1>3. CASE Refuse(c, h)
  <2>1. Sends(c, h, "queueFull") /\ UNCHANGED <<stored, waiters, doing, got>>
    BY <1>3 DEF Refuse
  <2>2. \A i \in 1..Len(waiters) : sending'[waiters[i]] = sending[waiters[i]]
    BY <2>1, IsMessage, WaitersTyped
  <2>3. Line' = Line /\ FInv'
    BY <2>1, <2>2, SameThen
  <2>4. [Ideal!Next]_<<Line, got>>
    BY <2>1, <2>3, AbstractSteps
  <2> QED BY <2>3, <2>4 DEF Step
<1>4. CASE c \in Threads /\ SuspendSender(c, h)
  BY <1>4, SuspendStep
<1> QED BY <1>1, <1>2, <1>3, <1>4 DEF Send

LEMMA FrontsTail ==
    ASSUME NEW d, NEW w, NEW a, NEW b, FrontsFirst(d, w, a, b), w # <<>>, d[Head(w)] = "sendFront"
    PROVE  \E r \in Seq(Contexts) : /\ a = <<Head(w)>> \o r /\ Head(w) \in Contexts
                                    /\ FrontsFirst(d, Tail(w), r, b)
<1>1. a \in Seq(Contexts) /\ b \in Seq(Contexts) /\ w = a \o b
  BY DEF FrontsFirst
<1>2. a # <<>>
  <2>1. SUFFICES ASSUME a = <<>> PROVE FALSE
    OBVIOUS
  <2>2. w = b
    BY <1>1, <2>1
  <2>3. Head(w) = b[1] /\ 1 \in 1..Len(b)
    BY <1>1, <2>2
  <2> QED BY <2>3 DEF FrontsFirst
<1> DEFINE t == Head(a)
           r == Tail(a)
<1>3. /\ t \in Contexts /\ r \in Seq(Contexts) /\ a = <<t>> \o r
      /\ Len(r) = Len(a) - 1 /\ Len(a) \in Nat /\ \A i \in 1..Len(r) : r[i] = a[i + 1]
  BY <1>1, <1>2
<1> HIDE DEF t, r
<1>4. w = <<t>> \o (r \o b)
  BY <1>1, <1>3
<1>5. Head(w) = t /\ Tail(w) = r \o b
  <2> DEFINE l == r \o b
  <2>1. l \in Seq(Contexts)
    BY <1>1, <1>3
  <2> HIDE DEF l
  <2>2. Head(<<t>> \o l) = t /\ Tail(<<t>> \o l) = l
    BY <1>3, <2>1
  <2> QED BY <1>4, <2>2, Zenon DEF l
<1>6. ASSUME NEW i \in 1..Len(r) PROVE d[r[i]] = "sendFront"
  <2>1. i + 1 \in 1..Len(a) /\ r[i] = a[i + 1]
    BY <1>3
  <2> QED BY <2>1 DEF FrontsFirst
<1>7. FrontsFirst(d, Tail(w), r, b)
  BY <1>1, <1>3, <1>5, <1>6 DEF FrontsFirst
<1> QED BY <1>3, <1>5, <1>7

LEMMA OthersTail ==
    ASSUME NEW d, NEW w, NEW a, NEW b, FrontsFirst(d, w, a, b), w # <<>>, d[Head(w)] # "sendFront"
    PROVE  /\ a = <<>> /\ w \in Seq(Contexts) /\ Head(w) \in Contexts
           /\ \E r \in Seq(Contexts) : /\ b = <<Head(w)>> \o r
                                       /\ FrontsFirst(d, Tail(w), <<>>, r)
<1>1. a \in Seq(Contexts) /\ b \in Seq(Contexts) /\ w = a \o b
  BY DEF FrontsFirst
<1>2. a = <<>>
  <2>1. SUFFICES ASSUME a # <<>> PROVE FALSE
    OBVIOUS
  <2>2. Head(w) = a[1] /\ 1 \in 1..Len(a)
    BY <1>1, <2>1
  <2> QED BY <2>2 DEF FrontsFirst
<1>3. w = b
  BY <1>1, <1>2
<1> DEFINE r == Tail(b)
<1>4. /\ r \in Seq(Contexts) /\ b = <<Head(b)>> \o r /\ Head(b) \in Contexts
      /\ Len(r) = Len(b) - 1 /\ Len(b) \in Nat /\ \A i \in 1..Len(r) : r[i] = b[i + 1]
  BY <1>1, <1>3
<1>5. <<>> \o r = r /\ <<>> \in Seq(Contexts) /\ Len(<<>>) = 0
  BY <1>4
<1> HIDE DEF r
<1>6. \A i \in 1..Len(r) : d[r[i]] # "sendFront"
  BY <1>4 DEF FrontsFirst
<1>7. FrontsFirst(d, r, <<>>, r)
  BY <1>4, <1>5, <1>6 DEF FrontsFirst
<1>8. Tail(w) = r
  BY <1>3 DEF r
<1> QED BY <1>1, <1>2, <1>3, <1>4, <1>7, <1>8

\* A receive that takes the message of the first suspended sendFront().
LEMMA TakeOfferedStep ==
    ASSUME QInv, IInv', FInv, NEW c \in Contexts, Receive(c), TakeOffered PROVE Step
<1>1. /\ waiters # <<>> /\ doing[Head(waiters)] = "sendFront" /\ waiters' = Tail(waiters)
      /\ stored # <<>> /\ UNCHANGED <<doing, sending, stored>>
      /\ got' = Append(got, sending[Head(waiters)])
  BY DEF Receive, TakeOffered, Resume, First, Rest
<1>2. PICK a, b : FrontsFirst(doing, waiters, a, b)
  BY DEF FInv
<1>3. PICK r \in Seq(Contexts) : /\ a = <<Head(waiters)>> \o r /\ Head(waiters) \in Contexts
                                 /\ FrontsFirst(doing, Tail(waiters), r, b)
  BY <1>1, <1>2, FrontsTail
<1> DEFINE m == sending[Head(waiters)]
           p == Carried(sending, r)
           q == Carried(sending, b)
<1>4. Line = Join(Carried(sending, a), stored, q)
  BY <1>1, <1>2, CutNow
<1>5. Line' = Join(p, stored, q) /\ FInv'
  BY <1>1, <1>3, CutThen
<1>6. sending \in [Contexts -> Slots] /\ stored \in Seq(Slots)
  BY WaitersTyped
<1>7. b \in Seq(Contexts)
  BY <1>2 DEF FrontsFirst
<1>8. p \in Seq(Slots) /\ q \in Seq(Slots) /\ m \in Slots
  BY <1>3, <1>6, <1>7, CarriedTyped
<1>9. Carried(sending, <<Head(waiters)>> \o r) = <<m>> \o p
  <2>1. Carried(sending, <<Head(waiters)>>) = <<m>> /\ <<Head(waiters)>> \in Seq(Contexts)
    BY <1>3, <1>6, CarriedOne
  <2> QED BY <1>3, <1>6, <2>1, CarriedCut
<1>10. Line = Join(<<m>> \o p, stored, q)
  BY <1>3, <1>4, <1>9, Zenon
<1> HIDE DEF m, p, q
<1>11. /\ Join(<<m>> \o p, stored, q) # <<>>
       /\ Head(Join(<<m>> \o p, stored, q)) = m
       /\ Tail(Join(<<m>> \o p, stored, q)) = Join(p, stored, q)
  <2>1. p \in Seq(Slots) /\ stored \in Seq(Slots) /\ q \in Seq(Slots) /\ m \in Slots
    BY <1>6, <1>8
  <2> DEFINE l == Join(p, stored, q)
  <2>2. l \in Seq(Slots) /\ Join(<<m>> \o p, stored, q) = <<m>> \o l
    BY <2>1, JoinFirst
  <2> HIDE DEF l
  <2>3. <<m>> \o l # <<>> /\ Head(<<m>> \o l) = m /\ Tail(<<m>> \o l) = l
    BY <2>1, <2>2
  <2> QED BY <2>2, <2>3, Zenon DEF l
<1>12. Line # <<>> /\ Head(Line) = m /\ Tail(Line) = Line'
  BY <1>5, <1>10, <1>11, Zenon
<1>13. got' = Append(got, Head(Line))
  BY <1>1, <1>12 DEF m
<1>14. [Ideal!Next]_<<Line, got>>
  BY <1>12, <1>13, AbstractSteps
<1> QED BY <1>5, <1>14 DEF Step

\* A receive that takes what is stored and admits the first suspended send().
LEMMA TakeAndAdmitStep ==
    ASSUME QInv, IInv', FInv, NEW c \in Contexts, Receive(c), TakeAndAdmit PROVE Step
<1> DEFINE m == sending[Head(waiters)]
<1>1. /\ waiters # <<>> /\ doing[Head(waiters)] = "send" /\ waiters' = Tail(waiters)
      /\ stored # <<>> /\ UNCHANGED <<doing, sending>>
      /\ got' = Append(got, Head(stored)) /\ stored' = Append(Tail(stored), m)
  BY DEF Receive, TakeAndAdmit, Resume, First, Rest
<1>2. PICK a, b : FrontsFirst(doing, waiters, a, b)
  BY DEF FInv
<1>3. /\ a = <<>> /\ Head(waiters) \in Contexts
      /\ \E r \in Seq(Contexts) : /\ b = <<Head(waiters)>> \o r
                                  /\ FrontsFirst(doing, Tail(waiters), <<>>, r)
  BY <1>1, <1>2, OthersTail
<1>4. PICK r \in Seq(Contexts) : /\ b = <<Head(waiters)>> \o r
                                 /\ FrontsFirst(doing, Tail(waiters), <<>>, r)
  BY <1>3
<1> DEFINE q == Carried(sending, r)
<1>5. Line = Join(<<>>, stored, Carried(sending, b))
  BY <1>1, <1>2, <1>3, CutNow, CarriedNone
<1>6. sending \in [Contexts -> Slots] /\ stored \in Seq(Slots) /\ stored' \in Seq(Slots)
  BY WaitersTyped DEF IInv
<1>7. q \in Seq(Slots) /\ m \in Slots
  <2>1. q \in Seq(Slots)
    BY <1>6, CarriedTyped
  <2>2. m \in Slots
    BY <1>3, <1>6
  <2> QED BY <2>1, <2>2
<1>8. stored' # <<>>
  <2>1. Tail(stored) \in Seq(Slots)
    BY <1>1, <1>6
  <2> QED BY <1>1, <1>7, <2>1
<1>9. Line' = Join(<<>>, stored', q) /\ FInv'
  BY <1>1, <1>4, <1>8, CutThen, CarriedNone
<1>10. Carried(sending, <<Head(waiters)>> \o r) = <<m>> \o q
  <2>1. Carried(sending, <<Head(waiters)>>) = <<m>> /\ <<Head(waiters)>> \in Seq(Contexts)
    BY <1>3, <1>6, CarriedOne
  <2> QED BY <1>6, <2>1, CarriedCut
<1>11. Line = Join(<<>>, stored, <<m>> \o q)
  BY <1>4, <1>5, <1>10, Zenon
<1> HIDE DEF m, q
<1>12. /\ Join(<<>>, stored, <<m>> \o q) # <<>>
       /\ Head(Join(<<>>, stored, <<m>> \o q)) = Head(stored)
       /\ Tail(Join(<<>>, stored, <<m>> \o q)) = Join(<<>>, Append(Tail(stored), m), q)
  BY <1>1, <1>6, <1>7, Admit
<1>13. Line # <<>> /\ Head(Line) = Head(stored) /\ Tail(Line) = Line'
  BY <1>1, <1>9, <1>11, <1>12, Zenon
<1>14. [Ideal!Next]_<<Line, got>>
  BY <1>1, <1>13, AbstractSteps
<1> QED BY <1>9, <1>14 DEF Step

LEMMA ReceiveStep == ASSUME QInv, IInv', FInv, NEW c \in Contexts, Receive(c) PROVE Step
<1>1. CASE Take
  <2>1. /\ stored # <<>> /\ stored' = Tail(stored) /\ got' = Append(got, Head(stored))
        /\ waiters = <<>> /\ waiters' = <<>>
    BY <1>1 DEF Receive, Take
  <2>2. Line = stored /\ Line' = stored' /\ FInv'
    BY <2>1, WaitersTyped, AloneNow, AloneThen DEF IInv
  <2>3. [Ideal!Next]_<<Line, got>>
    BY <2>1, <2>2, AbstractSteps
  <2> QED BY <2>2, <2>3 DEF Step
<1>2. CASE TakeOffered
  BY <1>2, TakeOfferedStep
<1>3. CASE TakeAndAdmit
  BY <1>3, TakeAndAdmitStep
<1> QED BY <1>1, <1>2, <1>3 DEF Receive

\* What all elements of a sequence have, they keep when one is taken out.
LEMMA CutContext ==
    \A u, v \in Seq(Contexts), t \in Contexts : RemoveAt(Inserted(u, t, v), Len(u) + 1) = u \o v
  BY CutRemove

LEMMA AllKept ==
    ASSUME NEW S, NEW u \in Seq(S), NEW t \in S, NEW v \in Seq(S), NEW G
    PROVE  (\A i \in 1..Len(u \o (<<t>> \o v)) : (u \o (<<t>> \o v))[i] \in G)
           => (\A i \in 1..Len(u \o v) : (u \o v)[i] \in G)
<1> DEFINE r == <<t>> \o v
           l == u \o r
           k == u \o v
<1>1. /\ r \in Seq(S) /\ Len(r) = Len(v) + 1 /\ r[1] = t /\ Len(v) \in Nat
      /\ \A i \in 1..Len(v) : r[i + 1] = v[i]
  OBVIOUS
<1> HIDE DEF r
<1>2. /\ Len(l) = Len(u) + Len(r) /\ Len(u) \in Nat
      /\ \A i \in 1..Len(u) : l[i] = u[i]
      /\ \A i \in 1..Len(r) : l[Len(u) + i] = r[i]
  <2>1. \A x, y \in Seq(S) :
           /\ Len(x \o y) = Len(x) + Len(y) /\ Len(x) \in Nat
           /\ \A i \in 1..Len(x) : (x \o y)[i] = x[i]
           /\ \A i \in 1..Len(y) : (x \o y)[Len(x) + i] = y[i]
    BY Cut
  <2> QED BY <1>1, <2>1
<1>3. /\ Len(k) = Len(u) + Len(v)
      /\ \A i \in 1..Len(u) : k[i] = u[i]
      /\ \A i \in 1..Len(v) : k[Len(u) + i] = v[i]
  BY Cut
<1> HIDE DEF l, k
<1>4. SUFFICES ASSUME \A i \in 1..Len(l) : l[i] \in G
               PROVE  \A i \in 1..Len(k) : k[i] \in G
  BY DEF l, k, r
<1>6. ASSUME NEW i \in 1..Len(k) PROVE k[i] \in G
  <2>1. CASE i \in 1..Len(u)
    <3>1. i \in 1..Len(l) /\ l[i] = k[i]
      BY <1>1, <1>2, <1>3, <2>1
    <3> QED BY <1>4, <3>1
  <2>2. CASE i \notin 1..Len(u)
    <3>1. i - Len(u) \in 1..Len(v) /\ Len(u) + (i - Len(u)) = i
      BY <1>1, <1>2, <1>3, <2>2
    <3>2. PICK n \in 1..Len(v) : i = Len(u) + n
      BY <3>1
    <3>3. n + 1 \in 1..Len(r) /\ Len(u) + (n + 1) \in 1..Len(l)
      BY <1>1, <1>2
    <3>4. k[i] = v[n] /\ r[n + 1] = v[n] /\ l[Len(u) + (n + 1)] = r[n + 1]
      BY <1>1, <1>2, <1>3, <3>2, <3>3
    <3> QED BY <1>4, <3>3, <3>4
  <2> QED BY <2>1, <2>2
<1> QED BY <1>6

\* A context leaves the suspension list, and w is left.
Shorter(d, w, a, b) ==
    \E u \in Seq(Contexts), t \in Contexts, v \in Seq(Contexts) :
       \/ a = u \o (<<t>> \o v) /\ FrontsFirst(d, w, u \o v, b)
       \/ b = u \o (<<t>> \o v) /\ FrontsFirst(d, w, a, u \o v)

LEMMA FrontsRemove ==
    ASSUME NEW d, NEW w, NEW a, NEW b, FrontsFirst(d, w, a, b), NEW i \in 1..Len(w)
    PROVE  Shorter(d, RemoveAt(w, i), a, b)
<1>1. a \in Seq(Contexts) /\ b \in Seq(Contexts) /\ w = a \o b
  BY DEF FrontsFirst
<1>5. a \in Seq(Contexts) /\ b \in Seq(Contexts)
  BY <1>1
<1>2. Len(w) = Len(a) + Len(b) /\ Len(a) \in Nat /\ Len(b) \in Nat
  BY <1>1, Cut
<1>3. CASE i <= Len(a)
  <2>1. i \in 1..Len(a) /\ a[i] \in Contexts
    BY <1>1, <1>2, <1>3
  <2>2. PICK u, v \in Seq(Contexts) : a = u \o (<<a[i]>> \o v) /\ Len(u) = i - 1
    BY <1>1, <2>1, CutOut
  <2> DEFINE t == a[i]
             r == v \o b
  <2>3. r \in Seq(Contexts) /\ t \in Contexts /\ i = Len(u) + 1
    BY <1>1, <2>1, <2>2
  <2>4. a = u \o (<<t>> \o v)
    BY <2>2
  <2> HIDE DEF t
  <2>5. (u \o (<<t>> \o v)) \o b = Inserted(u, t, r)
    BY <1>1, <2>3, SMTT(30) DEF Inserted
  <2>6. u \o r = (u \o v) \o b /\ u \o v \in Seq(Contexts)
    BY <1>1, SMTT(30)
  <2> HIDE DEF r
  <2>7. RemoveAt(Inserted(u, t, r), Len(u) + 1) = u \o r
    BY <2>3, CutContext, Zenon
  <2>8. RemoveAt(w, i) = (u \o v) \o b
    BY <1>1, <2>3, <2>4, <2>5, <2>6, <2>7, Zenon
  <2> DEFINE G == {c \in Contexts : d[c] = "sendFront"}
  <2>9. \A k \in 1..Len(u \o (<<t>> \o v)) : (u \o (<<t>> \o v))[k] \in G
    BY <1>1, <2>4 DEF FrontsFirst
  <2> HIDE DEF G
  <2>10. \A k \in 1..Len(u \o v) : (u \o v)[k] \in G
    BY <2>3, <2>9, AllKept
  <2> USE DEF G
  <2>11. FrontsFirst(d, RemoveAt(w, i), u \o v, b)
    BY <1>1, <2>6, <2>8, <2>10 DEF FrontsFirst
  <2> QED BY <2>3, <2>4, <2>11 DEF Shorter
<1>4. CASE ~(i <= Len(a))
  <2>1. PICK n \in 1..Len(b) : i = Len(a) + n /\ b[n] \in Contexts
    <3>1. i - Len(a) \in 1..Len(b) /\ i = Len(a) + (i - Len(a))
      BY <1>2, <1>4
    <3>2. b[i - Len(a)] \in Contexts
      BY <1>1, <3>1
    <3> QED BY <3>1, <3>2
  <2>2. PICK u, v \in Seq(Contexts) : b = u \o (<<b[n]>> \o v) /\ Len(u) = n - 1
    BY <1>1, CutOut, ZenonT(30)
  <2> DEFINE t == b[n]
             l == a \o u
  <2>3. l \in Seq(Contexts) /\ t \in Contexts /\ i = Len(l) + 1
    <3>1. l \in Seq(Contexts) /\ Len(l) = Len(a) + Len(u)
      BY <1>5
    <3> QED BY <1>2, <2>1, <2>2, <3>1
  <2>4. b = u \o (<<t>> \o v)
    BY <2>2
  <2> HIDE DEF t
  <2>5. a \o (u \o (<<t>> \o v)) = Inserted(l, t, v)
    BY <1>5, <2>3, SMTT(30) DEF Inserted
  <2>6. l \o v = a \o (u \o v) /\ u \o v \in Seq(Contexts)
    BY <1>1, SMTT(30)
  <2> HIDE DEF l
  <2>7. RemoveAt(Inserted(l, t, v), Len(l) + 1) = l \o v
    BY <2>3, CutContext, Zenon
  <2>8. RemoveAt(w, i) = a \o (u \o v)
    BY <1>1, <2>3, <2>4, <2>5, <2>6, <2>7, Zenon
  <2> DEFINE G == {c \in Contexts : d[c] # "sendFront"}
  <2>9. \A k \in 1..Len(b) : b[k] \in G
    BY <1>1 DEF FrontsFirst
  <2> HIDE DEF G
  <2>10. \A k \in 1..Len(u \o v) : (u \o v)[k] \in G
    <3>1. \A k \in 1..Len(u \o (<<t>> \o v)) : (u \o (<<t>> \o v))[k] \in G
      BY <2>4, <2>9, Zenon
    <3> QED BY <2>3, <3>1, AllKept
  <2> USE DEF G
  <2>11. FrontsFirst(d, RemoveAt(w, i), a, u \o v)
    BY <1>1, <2>6, <2>8, <2>10 DEF FrontsFirst
  <2> QED BY <2>3, <2>4, <2>11 DEF Shorter
<1> QED BY <1>3, <1>4

LEMMA CarriedCutOut ==
    ASSUME NEW g \in [Contexts -> Slots], NEW u \in Seq(Contexts), NEW t \in Contexts,
           NEW v \in Seq(Contexts)
    PROVE  /\ Carried(g, u \o (<<t>> \o v)) = Carried(g, u) \o (<<g[t]>> \o Carried(g, v))
           /\ Carried(g, u \o v) = Carried(g, u) \o Carried(g, v)
           /\ Carried(g, u) \in Seq(Slots) /\ Carried(g, v) \in Seq(Slots) /\ g[t] \in Slots
<1> DEFINE c == <<t>>
           r == c \o v
<1>1. c \in Seq(Contexts) /\ Carried(g, c) = <<g[t]>>
  BY CarriedOne
<1> HIDE DEF c
<1>6. Carried(g, r) = Carried(g, c) \o Carried(g, v)
  <2>1. c \in Seq(Contexts)
    BY <1>1
  <2> QED BY <2>1, CarriedCut
<1>2. r \in Seq(Contexts)
  BY <1>1
<1> HIDE DEF r
<1>3. Carried(g, u \o r) = Carried(g, u) \o Carried(g, r)
  BY <1>2, CarriedCut
<1>4. Carried(g, u \o v) = Carried(g, u) \o Carried(g, v)
  BY CarriedCut
<1>5. Carried(g, u) \in Seq(Slots) /\ Carried(g, v) \in Seq(Slots) /\ g[t] \in Slots
  BY CarriedTyped
<1> QED BY <1>1, <1>3, <1>4, <1>5, <1>6, Zenon DEF c, r

\* A call that is given up takes its message out of the line.
LEMMA GiveUpStep ==
    ASSUME QInv, IInv', FInv, NEW t \in Threads, NEW error, GiveUp(t, error) PROVE Step
<1>1. PICK i \in 1..Len(waiters) : waiters' = RemoveAt(waiters, i)
  BY DEF GiveUp
<1>2. UNCHANGED <<stored, doing, sending, got>>
  BY DEF GiveUp
<1>3. CASE stored = <<>>
  <2>1. Line = <<>> /\ Line' = <<>> /\ FInv'
    BY <1>2, <1>3, IdleNow, IdleThen DEF QInv
  <2>2. [Ideal!Next]_<<Line, got>>
    BY <1>2, <2>1, AbstractSteps
  <2> QED BY <2>1, <2>2 DEF Step
<1>4. CASE stored # <<>>
  <2>1. PICK a, b : FrontsFirst(doing, waiters, a, b)
    BY DEF FInv
  <2>2. a \in Seq(Contexts) /\ b \in Seq(Contexts)
    BY <2>1 DEF FrontsFirst
  <2>3. sending \in [Contexts -> Slots] /\ stored \in Seq(Slots)
    BY WaitersTyped
  <2>4. Line = Join(Carried(sending, a), stored, Carried(sending, b))
    BY <1>4, <2>1, CutNow
  <2>0. Shorter(doing, waiters', a, b)
    BY <1>1, <2>1, FrontsRemove
  <2>5. PICK u \in Seq(Contexts), c \in Contexts, v \in Seq(Contexts) :
           \/ a = u \o (<<c>> \o v) /\ FrontsFirst(doing, waiters', u \o v, b)
           \/ b = u \o (<<c>> \o v) /\ FrontsFirst(doing, waiters', a, u \o v)
    BY <2>0 DEF Shorter
  <2> DEFINE m == sending[c]
             x == Carried(sending, u)
             y == Carried(sending, v)
             p == Carried(sending, a)
             q == Carried(sending, b)
  <2>6. /\ Carried(sending, u \o (<<c>> \o v)) = x \o (<<m>> \o y)
        /\ Carried(sending, u \o v) = x \o y
        /\ x \in Seq(Slots) /\ y \in Seq(Slots) /\ m \in Slots
    BY <2>3, CarriedCutOut
  <2>7. p \in Seq(Slots) /\ q \in Seq(Slots)
    <3>1. \A w \in Seq(Contexts) : Carried(sending, w) \in Seq(Slots)
      BY <2>3, CarriedTyped
    <3> QED BY <2>2, <3>1
  <2>8. Removed(Line, Line') /\ FInv'
    <3>1. CASE a = u \o (<<c>> \o v) /\ FrontsFirst(doing, waiters', u \o v, b)
      <4>1. Line' = Join(x \o y, stored, q) /\ FInv'
        BY <1>2, <1>4, <2>6, <3>1, CutThen
      <4>2. Line = Join(x \o (<<m>> \o y), stored, q)
        BY <2>4, <2>6, <3>1, Zenon
      <4> HIDE DEF m, x, y, p, q
      <4>3. Removed(Join(x \o (<<m>> \o y), stored, q), Join(x \o y, stored, q))
        BY <2>3, <2>6, <2>7, RemoveFront
      <4> QED BY <4>1, <4>2, <4>3, Zenon
    <3>2. CASE b = u \o (<<c>> \o v) /\ FrontsFirst(doing, waiters', a, u \o v)
      <4>1. Line' = Join(p, stored, x \o y) /\ FInv'
        BY <1>2, <1>4, <2>6, <3>2, CutThen
      <4>2. Line = Join(p, stored, x \o (<<m>> \o y))
        BY <2>4, <2>6, <3>2, Zenon
      <4> HIDE DEF m, x, y, p, q
      <4>3. Removed(Join(p, stored, x \o (<<m>> \o y)), Join(p, stored, x \o y))
        BY <2>3, <2>6, <2>7, RemoveBack
      <4> QED BY <4>1, <4>2, <4>3, Zenon
    <3> QED BY <2>5, <3>1, <3>2
  <2>9. [Ideal!Next]_<<Line, got>>
    BY <1>2, <2>8, AbstractSteps DEF Removed
  <2> QED BY <2>8, <2>9 DEF Step
<1> QED BY <1>3, <1>4

\* With no sendFront() suspended, prioritise() moves what comes after the storage.
LEMMA PrioritiseStep ==
    ASSUME QInv, IInv', FInv, MixFronts = FALSE, Prioritise PROVE Step
<1>1. PICK i \in 1..Len(waiters) : waiters' = <<waiters[i]>> \o RemoveAt(waiters, i)
  BY DEF Prioritise
<1>2. /\ UNCHANGED <<stored, doing, sending, got>>
      /\ \A k \in 1..Len(waiters) : doing[waiters[k]] # "sendFront"
  BY DEF Prioritise
<1>3. CASE stored = <<>>
  <2>1. Line = <<>> /\ Line' = <<>> /\ FInv'
    BY <1>2, <1>3, IdleNow, IdleThen DEF QInv
  <2>2. [Ideal!Next]_<<Line, got>>
    BY <1>2, <2>1, AbstractSteps
  <2> QED BY <2>1, <2>2 DEF Step
<1>4. CASE stored # <<>>
  <2>1. waiters \in Seq(Contexts) /\ sending \in [Contexts -> Slots] /\ stored \in Seq(Slots)
    BY WaitersTyped
  <2>2. PICK u, v \in Seq(Contexts) : waiters = u \o (<<waiters[i]>> \o v) /\ Len(u) = i - 1
    BY <2>1, CutOut, ZenonT(30)
  <2> DEFINE t == waiters[i]
             w == u \o v
             e == <<>>
  <2>3. t \in Contexts /\ i = Len(u) + 1
    BY <2>1, <2>2
  <2>4. waiters = u \o (<<t>> \o v) /\ waiters' = <<t>> \o RemoveAt(waiters, i)
    BY <1>1, <2>2
  <2>5. doing[t] # "sendFront"
    BY <1>2
  <2> HIDE DEF t
  <2>6. waiters' = <<t>> \o w /\ w \in Seq(Contexts)
    <3>1. RemoveAt(Inserted(u, t, v), Len(u) + 1) = u \o v
      BY <2>3, CutContext, Zenon
    <3>2. RemoveAt(waiters, i) = u \o v
      BY <2>3, <2>4, <3>1, Zenon DEF Inserted
    <3>3. w \in Seq(Contexts)
      OBVIOUS
    <3> QED BY <2>4, <3>2, <3>3, Zenon
  <2>7. FrontsFirst(doing, waiters, e, waiters)
    <3>1. e \in Seq(Contexts) /\ Len(e) = 0 /\ e \o waiters = waiters
      BY <2>1
    <3> QED BY <1>2, <2>1, <3>1 DEF FrontsFirst
  <2>8. FrontsFirst(doing, waiters', e, waiters')
    <3> DEFINE G == {c \in Contexts : doing[c] # "sendFront"}
    <3>1. \A k \in 1..Len(u \o (<<t>> \o v)) : (u \o (<<t>> \o v))[k] \in G
      BY <1>2, <2>1, <2>4
    <3> HIDE DEF G
    <3>2. \A k \in 1..Len(w) : w[k] \in G
      BY <2>3, <3>1, AllKept
    <3> HIDE DEF w
    <3> DEFINE z == <<t>> \o w
    <3>3. /\ z \in Seq(Contexts) /\ Len(z) = Len(w) + 1 /\ z[1] = t /\ Len(w) \in Nat
          /\ \A k \in 2..Len(z) : z[k] = w[k - 1]
      BY <2>3, <2>6
    <3> HIDE DEF z
    <3>4. ASSUME NEW k \in 1..Len(z) PROVE doing[z[k]] # "sendFront"
      <4>1. CASE k = 1
        BY <2>5, <3>3, <4>1
      <4>2. CASE k # 1
        <5>1. k \in 2..Len(z) /\ k - 1 \in 1..Len(w)
          BY <3>3, <4>2
        <5> QED BY <3>2, <3>3, <5>1 DEF G
      <4> QED BY <4>1, <4>2
    <3>5. e \in Seq(Contexts) /\ Len(e) = 0 /\ e \o z = z
      BY <3>3
    <3>6. FrontsFirst(doing, z, e, z)
      BY <3>3, <3>4, <3>5 DEF FrontsFirst
    <3> QED BY <2>6, <3>6 DEF z
  <2> DEFINE m == sending[t]
             x == Carried(sending, u)
             y == Carried(sending, v)
  <2>9. Line = Join(e, stored, Carried(sending, waiters))
    BY <1>4, <2>7, CutNow, CarriedNone
  <2>10. Line' = Join(e, stored, Carried(sending, waiters')) /\ FInv'
    BY <1>2, <1>4, <2>8, CutThen, CarriedNone
  <2>11. /\ Carried(sending, u \o (<<t>> \o v)) = x \o (<<m>> \o y)
         /\ x \in Seq(Slots) /\ y \in Seq(Slots) /\ m \in Slots
         /\ Carried(sending, w) = x \o y
    BY <2>1, <2>3, CarriedCutOut
  <2>12. Carried(sending, <<t>> \o w) = <<m>> \o (x \o y)
    <3>1. Carried(sending, <<t>>) = <<m>> /\ <<t>> \in Seq(Contexts)
      BY <2>1, <2>3, CarriedOne
    <3>2. Carried(sending, <<t>> \o w) = Carried(sending, <<t>>) \o Carried(sending, w)
      BY <2>1, <2>6, <3>1, CarriedCut
    <3> QED BY <2>11, <3>1, <3>2, Zenon
  <2>13. Line = Join(e, stored, x \o (<<m>> \o y)) /\ Line' = Join(e, stored, <<m>> \o (x \o y))
    BY <2>4, <2>6, <2>9, <2>10, <2>11, <2>12, Zenon
  <2> HIDE DEF m, x, y, w
  <2>14. Moved(Join(e, stored, x \o (<<m>> \o y)), Join(e, stored, <<m>> \o (x \o y)))
    BY <2>1, <2>11, MoveBack
  <2>16. Moved(Line, Line')
    BY <2>13, <2>14, Zenon
  <2>15. [Ideal!Next]_<<Line, got>>
    BY <1>2, <2>16, AbstractSteps DEF Moved
  <2> QED BY <2>10, <2>15 DEF Step
<1> QED BY <1>3, <1>4

\* Every step of the kernel is a step of the line or leaves it alone.
LEMMA NextStep ==
    ASSUME QInv, IInv', FInv, MixFronts = FALSE, [Next]_vars PROVE Step
<1>1. ASSUME NEW c \in Senders, Send(c, "send") \/ Send(c, "sendFront") PROVE Step
  BY <1>1, SendStep
<1>2. ASSUME NEW c \in Contexts, Receive(c) PROVE Step
  BY <1>2, ReceiveStep
<1>3. ASSUME UNCHANGED <<stored, waiters, doing, sending, got>> PROVE Step
  <2>1. Line' = Line /\ FInv'
    BY <1>3, SameThen
  <2>2. [Ideal!Next]_<<Line, got>>
    BY <1>3, <2>1, AbstractSteps
  <2> QED BY <2>1, <2>2 DEF Step
<1>4. ASSUME NEW c \in Contexts, NotifyEnds(c) PROVE Step
  BY <1>3, <1>4 DEF NotifyEnds
<1>5. ASSUME NEW t \in Threads, SuspendReceiver(t) PROVE Step
  <2>1. stored = <<>> /\ stored' = <<>> /\ got' = got
    BY <1>5 DEF SuspendReceiver
  <2>2. Line = <<>> /\ Line' = <<>> /\ FInv'
    BY <2>1, IdleNow, IdleThen DEF QInv
  <2>3. [Ideal!Next]_<<Line, got>>
    BY <2>1, <2>2, AbstractSteps
  <2> QED BY <2>2, <2>3 DEF Step
<1>6. ASSUME NEW t \in Threads, NEW error, GiveUp(t, error) PROVE Step
  BY <1>6, GiveUpStep
<1>7. CASE Prioritise
  BY <1>7, PrioritiseStep
<1>8. CASE Flush \/ Destroy
  <2>1. stored' = <<>> /\ waiters' = <<>> /\ got' = got
    BY <1>8 DEF Flush, Destroy
  <2>2. Line' = <<>> /\ FInv'
    BY <2>1, IdleThen
  <2>3. [Ideal!Next]_<<Line, got>>
    BY <2>1, <2>2, AbstractSteps
  <2> QED BY <2>2, <2>3 DEF Step
<1>9. CASE UNCHANGED vars
  BY <1>3, <1>9 DEF vars
<1> QED BY <1>1, <1>2, <1>4, <1>5, <1>6, <1>7, <1>8, <1>9, Zenon DEF Next

(* The storage and the suspended senders are at every moment one line of     *)
(* messages, of which each call of the kernel does what the service          *)
(* promises, if nothing is prioritised while a sendFront() is suspended.     *)
THEOREM IsOneLine == ASSUME MixFronts = FALSE PROVE Spec => ImplementsIdeal
<1>1. Init => Line = <<>> /\ got = <<>> /\ FInv
  <2> SUFFICES ASSUME Init PROVE Line = <<>> /\ got = <<>> /\ FInv
    OBVIOUS
  <2>1. stored = <<>> /\ waiters = <<>> /\ got = <<>> /\ stored \in Seq(Slots)
    BY DEF Init
  <2>2. Line = <<>>
    BY <2>1, AloneNow
  <2>3. FrontsFirst(doing, <<>>, <<>>, <<>>)
    BY LineAlone, <2>1
  <2> QED BY <2>1, <2>2, <2>3 DEF FInv
<1>2. Init => Ideal!Init
  BY <1>1 DEF Ideal!Init, Line
<1>3. QInv /\ FInv /\ [Next]_vars => (QInv /\ FInv)' /\ [Ideal!Next]_<<Line, got>>
  <2> SUFFICES ASSUME QInv, FInv, [Next]_vars PROVE (QInv /\ FInv)' /\ [Ideal!Next]_<<Line, got>>
    OBVIOUS
  <2>1. QInv'
    BY NextQInv
  <2>2. IInv'
    BY <2>1 DEF QInv
  <2> QED BY <2>1, <2>2, NextStep DEF Step
<1>4. [Ideal!Next]_<<Line, got>> => [Ideal!Next]_Ideal!vars
  BY DEF Ideal!vars, Line
<1> QED BY <1>1, <1>2, <1>3, <1>4, InitQInv, PTL DEF Spec, ImplementsIdeal, Ideal!Spec

=============================================================================
