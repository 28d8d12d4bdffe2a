----------------------------- MODULE IdealQueue -----------------------------
(***************************************************************************)
(* What a Queue promises (queue.hpp:37-78): one line of messages, those of *)
(* suspended senders included.  send() puts one at its end, sendFront() at *)
(* its front, receive() takes the first one; a sender that gives up takes  *)
(* its message back, prioritise() moves one of them forward, flush()       *)
(* empties the line.                                                       *)
(***************************************************************************)
EXTENDS Naturals, SequencesExt

CONSTANTS
    Plain,  \* messages for the end of the line
    Urgent  \* messages for its front

VARIABLES
    line,   \* the messages in the order in which they will be received
    got     \* the messages received, in order

vars == <<line, got>>

Init == line = <<>> /\ got = <<>>

Send(m) == line' = Append(line, m) /\ UNCHANGED got

SendFront(m) == line' = <<m>> \o line /\ UNCHANGED got

\* A receiver is waiting.
Hand(m) == line = <<>> /\ got' = Append(got, m) /\ UNCHANGED line

Receive == line # <<>> /\ got' = Append(got, Head(line)) /\ line' = Tail(line)

GiveUp == \E i \in 1..Len(line) : line' = RemoveAt(line, i) /\ UNCHANGED got

Prioritise ==
    /\ \E i \in 1..Len(line) : \E k \in 1..i :
          line' = InsertAt(RemoveAt(line, i), k, line[i])
    /\ UNCHANGED got

Flush == line' = <<>> /\ UNCHANGED got

Next ==
    \/ \E m \in Plain : Send(m)
    \/ \E m \in Urgent : SendFront(m)
    \/ \E m \in Plain \cup Urgent : Hand(m)
    \/ Receive \/ GiveUp \/ Prioritise \/ Flush

Spec == Init /\ [][Next]_vars
=============================================================================
