------------------------------- MODULE Queue -------------------------------
(***************************************************************************)
(* Queue<Msg, Pool> (queue.hpp).  Each call is one service of the kernel,  *)
(* whose suspension list holds receivers of an empty queue or senders to a *)
(* full one: send() waits at its end, sendFront() at its front.  The       *)
(* message of a suspended sender is moved by the receiver that makes room  *)
(* for it.  The send callback runs in the sender, after its message is in  *)
(* the queue and others may have run; it may call what does not suspend.   *)
(* A call that fails at once and takes nothing changes nothing.            *)
(***************************************************************************)
EXTENDS Naturals, FiniteSets, SequencesExt

CONSTANTS
    Threads,        \* they may suspend
    Isrs,           \* interrupts, timers, initialisation: they only try
    Senders,        \* those of them that send
    Priority,       \* of each thread; smaller is more important
    Capacity,       \* messages the storage holds
    MixFronts,      \* TRUE: prioritise() also while a sendFront() is suspended
    MaxSent         \* bound: messages sent over the whole run

Contexts == Threads \cup Isrs

ASSUME QueueAssumption ==
    /\ Capacity \in Nat \ {0}
    /\ Priority \in [Threads -> Nat]
    /\ Senders \subseteq Contexts
    /\ MixFronts \in BOOLEAN
    /\ MaxSent \in Nat

\* A payload: who sent it, when, and how.
Messages == [from : Senders, number : 1..MaxSent, how : {"send", "sendFront"}]

VARIABLES
    exists,     \* between the constructor and the destructor
    stored,     \* the messages in the storage, the next to be received first
    waiters,    \* the suspension list, its head first
    doing,      \* the call a thread was last suspended in
    sending,    \* the message of a context's last send
    answer,     \* the Error of that send, "none" while it is suspended
    telling,    \* contexts that have yet to leave the send callback
    sent, got, flushed, told    \* history variables: the number of messages sent, the
                                \* messages received in order, flushed, announced

vars == <<exists, stored, waiters, doing, sending, answer, telling, sent, got, flushed, told>>

Errors == {"none", "success", "queueFull", "waitAborted", "deleted"}

NoMessage == [from |-> "nobody", number |-> 0, how |-> "send"]

TypeOK ==
    /\ exists \in BOOLEAN
    /\ stored \in Seq(Messages) /\ Len(stored) <= Capacity
    /\ waiters \in Seq(Threads)
    /\ doing \in [Threads -> {"receive", "send", "sendFront"}]
    /\ sending \in [Contexts -> Messages \cup {NoMessage}]
    /\ answer \in [Contexts -> Errors]
    /\ telling \subseteq Contexts
    /\ sent \in 0..MaxSent
    /\ got \in Seq(Messages)
    /\ flushed \subseteq Messages
    /\ told \subseteq Messages

Init ==
    /\ exists = TRUE
    /\ stored = <<>> /\ waiters = <<>>
    /\ doing = [t \in Threads |-> "receive"]
    /\ sending = [c \in Contexts |-> NoMessage]
    /\ answer = [c \in Contexts |-> "none"]
    /\ telling = {}
    /\ sent = 0 /\ got = <<>> /\ flushed = {} /\ told = {}

IsWaiting(c) == \E i \in 1..Len(waiters) : waiters[i] = c

\* Context c executes its own code, perhaps inside the callback.
Runs(c) == exists /\ ~IsWaiting(c)

First == Head(waiters)

Rest == Tail(waiters)

\* The first of the most important waiters.
IsFirst(i) ==
    \A k \in 1..Len(waiters) :
        \/ Priority[waiters[i]] < Priority[waiters[k]]
        \/ Priority[waiters[i]] = Priority[waiters[k]] /\ i <= k

-----------------------------------------------------------------------------
(***************************************************************************)
(* send(), sendFront() and their other forms                               *)
(***************************************************************************)
Message(c, h) == [from |-> c, number |-> sent + 1, how |-> h]

\* The message that is sent, and the Error if the call returns at once.
Sends(c, h, error) ==
    /\ Runs(c) /\ c \notin telling
    /\ sent < MaxSent
    /\ sent' = sent + 1
    /\ sending' = [sending EXCEPT ![c] = Message(c, h)]
    /\ answer' = [answer EXCEPT ![c] = error]
    /\ telling' = IF error = "success" THEN telling \cup {c} ELSE telling
    /\ UNCHANGED <<exists, flushed, told>>

\* Faults: sendFront() calls tx_queue_send, and send() tx_queue_front_send.
StoreAtEnd(c, h) ==
    /\ Len(stored) < Capacity /\ waiters = <<>>
    /\ stored' = Append(stored, Message(c, h))
    /\ Sends(c, h, "success")
    /\ UNCHANGED <<waiters, doing, got>>

StoreAtFront(c, h) ==
    /\ Len(stored) < Capacity /\ waiters = <<>>
    /\ stored' = <<Message(c, h)>> \o stored
    /\ Sends(c, h, "success")
    /\ UNCHANGED <<waiters, doing, got>>

Store(c, h) ==
    /\ Len(stored) < Capacity /\ waiters = <<>>
    /\ stored' = IF h = "send" THEN Append(stored, Message(c, h))
                 ELSE <<Message(c, h)>> \o stored
    /\ Sends(c, h, "success")
    /\ UNCHANGED <<waiters, doing, got>>

\* A suspended receiver gets the message; the storage is not used.
HandToReceiver(c, h) ==
    /\ Len(stored) < Capacity /\ waiters # <<>>
    /\ got' = Append(got, Message(c, h))
    /\ waiters' = Rest
    /\ Sends(c, h, "success")
    /\ UNCHANGED <<stored, doing>>

SuspendSender(t, h) ==
    /\ Len(stored) = Capacity
    /\ waiters' = IF h = "send" THEN Append(waiters, t) ELSE <<t>> \o waiters
    /\ doing' = [doing EXCEPT ![t] = h]
    /\ Sends(t, h, "none")
    /\ UNCHANGED <<stored, got>>

\* Fault: the Error is not returned.
RefuseUnsaid(c, h) ==
    /\ Len(stored) = Capacity
    /\ Sends(c, h, "success")
    /\ UNCHANGED <<stored, waiters, doing, got>>

\* trySend(), trySendFront()
Refuse(c, h) ==
    /\ Len(stored) = Capacity
    /\ Sends(c, h, "queueFull")
    /\ UNCHANGED <<stored, waiters, doing, got>>

Send(c, h) ==
    \/ Store(c, h) \/ HandToReceiver(c, h) \/ Refuse(c, h)
    \/ c \in Threads /\ SuspendSender(c, h)

-----------------------------------------------------------------------------
(***************************************************************************)
(* receive() and its other forms                                           *)
(***************************************************************************)
Take ==
    /\ waiters = <<>>
    /\ got' = Append(got, Head(stored))
    /\ stored' = Tail(stored)
    /\ UNCHANGED <<waiters, answer, telling>>

\* The first suspended sender's call succeeds.
Resume ==
    /\ waiters # <<>>
    /\ waiters' = Rest
    /\ answer' = [answer EXCEPT ![First] = "success"]
    /\ telling' = telling \cup {First}

\* A suspended sendFront(): its message passes the storage by.
TakeOffered ==
    /\ Resume
    /\ doing[First] = "sendFront"
    /\ got' = Append(got, sending[First])
    /\ UNCHANGED stored

\* A suspended send(): its message takes the place that becomes free.
TakeAndAdmit ==
    /\ Resume
    /\ doing[First] = "send"
    /\ got' = Append(got, Head(stored))
    /\ stored' = Append(Tail(stored), sending[First])

Receive(c) ==
    /\ Runs(c)
    /\ stored # <<>>
    /\ Take \/ TakeOffered \/ TakeAndAdmit
    /\ UNCHANGED <<exists, doing, sending, sent, flushed, told>>

SuspendReceiver(t) ==
    /\ Runs(t) /\ t \notin telling
    /\ stored = <<>>
    /\ waiters' = Append(waiters, t)
    /\ doing' = [doing EXCEPT ![t] = "receive"]
    /\ UNCHANGED <<exists, stored, sending, answer, telling, sent, got, flushed, told>>

-----------------------------------------------------------------------------
Answer(t, error) ==
    answer' = IF doing[t] = "receive" THEN answer ELSE [answer EXCEPT ![t] = error]

\* A suspended call times out or is aborted.
GiveUp(t, error) ==
    /\ \E i \in 1..Len(waiters) : waiters[i] = t /\ waiters' = RemoveAt(waiters, i)
    /\ Answer(t, error)
    /\ UNCHANGED <<exists, stored, doing, sending, telling, sent, got, flushed, told>>

\* Fault: the wrapper has no callback to call.
NotifyEndsUnheard(c) ==
    /\ c \in telling
    /\ Runs(c)
    /\ telling' = telling \ {c}
    /\ UNCHANGED <<exists, stored, waiters, doing, sending, answer, sent, got, flushed, told>>

\* The callback returns, and with it the send.
NotifyEnds(c) ==
    /\ c \in telling
    /\ Runs(c)
    /\ telling' = telling \ {c}
    /\ told' = told \cup {sending[c]}
    /\ UNCHANGED <<exists, stored, waiters, doing, sending, answer, sent, got, flushed>>

Prioritise ==
    /\ exists
    /\ MixFronts \/ \A i \in 1..Len(waiters) : doing[waiters[i]] # "sendFront"
    /\ \E i \in 1..Len(waiters) :
          IsFirst(i) /\ waiters' = <<waiters[i]>> \o RemoveAt(waiters, i)
    /\ UNCHANGED <<exists, stored, doing, sending, answer, telling, sent, got, flushed, told>>

WaitingSenders == {t \in Threads : IsWaiting(t) /\ doing[t] # "receive"}

\* Fault: senders stay suspended.
FlushStoredOnly ==
    /\ exists
    /\ stored # <<>>
    /\ stored' = <<>>
    /\ flushed' = flushed \cup ToSet(stored)
    /\ UNCHANGED <<exists, waiters, doing, sending, answer, telling, sent, got, told>>

\* flush(): suspended senders are told success, their messages are dropped, too.
Flush ==
    /\ exists
    /\ stored # <<>>
    /\ stored' = <<>> /\ waiters' = <<>>
    /\ flushed' = flushed \cup ToSet(stored) \cup {sending[t] : t \in WaitingSenders}
    /\ answer' = [c \in Contexts |-> IF c \in WaitingSenders THEN "success" ELSE answer[c]]
    /\ telling' = telling \cup WaitingSenders
    /\ UNCHANGED <<exists, doing, sending, sent, got, told>>

\* The destructor, with nobody inside the callback: what is suspended gets
\* Error::deleted, then the storage goes back to the pool.
Destroy ==
    /\ exists
    /\ telling = {}
    /\ exists' = FALSE
    /\ flushed' = flushed \cup ToSet(stored)
    /\ stored' = <<>> /\ waiters' = <<>>
    /\ answer' = [c \in Contexts |-> IF c \in WaitingSenders THEN "deleted" ELSE answer[c]]
    /\ UNCHANGED <<doing, sending, telling, sent, got, told>>

Next ==
    \/ \E c \in Senders : Send(c, "send") \/ Send(c, "sendFront")
    \/ \E c \in Contexts : Receive(c) \/ NotifyEnds(c)
    \/ \E t \in Threads :
          \/ SuspendReceiver(t)
          \/ \E error \in {"queueFull", "waitAborted"} : GiveUp(t, error)
    \/ Prioritise
    \/ Flush
    \/ Destroy

Spec == Init /\ [][Next]_vars

-----------------------------------------------------------------------------
(***************************************************************************)
(* Properties                                                              *)
(***************************************************************************)

(***************************************************************************)
(* Receivers are suspended on an empty queue only and senders on a full    *)
(* one: no call waits for what is there (queue.hpp:150, 177, 202), however *)
(* sends, receives, time-outs and flushes follow each other.               *)
(***************************************************************************)
NoIdleWait ==
    \A i \in 1..Len(waiters) :
        IF doing[waiters[i]] = "receive" THEN stored = <<>> ELSE Len(stored) = Capacity

(***************************************************************************)
(* A send that answers success has given its message away, to the storage, *)
(* to one receiver or to a flush; any other answer leaves it with the      *)
(* sender, which may send it again without a message arriving twice        *)
(* (queue.hpp:177-180).                                                    *)
(***************************************************************************)
Accepted == ToSet(stored) \cup ToSet(got) \cup flushed

SendAnswersTruly ==
    \A c \in Contexts : sending[c] # NoMessage =>
        (answer[c] = "success" <=> sending[c] \in Accepted)

(***************************************************************************)
(* A message that lies in the queue has been announced, or its sender is   *)
(* about to: a consumer that receives from the callback only leaves none   *)
(* behind (queue.hpp:116-120, 222-226), also when the message had to wait. *)
(***************************************************************************)
Announced ==
    \A i \in 1..Len(stored) :
        stored[i] \in told \/ \E c \in telling : sending[c] = stored[i]

(***************************************************************************)
(* What one context sent with send() is received in the order it was sent, *)
(* whatever others put in front, abort or prioritise; no message is there  *)
(* twice, and none that was flushed.                                       *)
(***************************************************************************)
InOrder ==
    LET all == got \o stored IN
    /\ \A i, k \in 1..Len(all) :
          i < k /\ all[i].from = all[k].from =>
             /\ all[i].number # all[k].number
             /\ all[i].how = "send" /\ all[k].how = "send"
                   => all[i].number < all[k].number
    /\ flushed \cap ToSet(all) = {}

(***************************************************************************)
(* The storage and the suspended senders together are the one line of      *)
(* messages that IdealQueue promises: suspended sendFront()s come before   *)
(* what is stored and suspended send()s after it.  The list has the former *)
(* before the latter, and receivers only while nothing is stored.          *)
(***************************************************************************)
Offers ==
    IF stored = <<>> THEN <<>> ELSE [i \in 1..Len(waiters) |-> sending[waiters[i]]]

Fronts == Cardinality({i \in 1..Len(waiters) : doing[waiters[i]] = "sendFront"})

\* s with the first n of offers before it and the others after it.
Around(s, n, offers) ==
    SubSeq(offers, 1, n) \o s \o SubSeq(offers, n + 1, Len(offers))

Ideal == INSTANCE IdealQueue WITH
    Plain <- {m \in Messages : m.how = "send"},
    Urgent <- {m \in Messages : m.how = "sendFront"},
    line <- Around(stored, Fronts, Offers)

ImplementsIdeal == Ideal!Spec
=============================================================================
