------------------------------ MODULE FifoQueue ------------------------------
(***************************************************************************)
(* What csf_assign05/message_queue.h promises to the threads of the chat   *)
(* server, whatever locks and counters stand behind it: a first-in         *)
(* first-out queue of Messages.  The state is the whole history of the     *)
(* queue: sent, the messages enqueued in order, and got, those dequeued.   *)
(***************************************************************************)
EXTENDS Sequences, Naturals

CONSTANT Msgs

VARIABLES sent, got

vars == <<sent, got>>

Init == sent = <<>> /\ got = <<>>

Enqueue(m) == sent' = Append(sent, m) /\ UNCHANGED got

\* The oldest message nobody has received yet.
Dequeue == /\ Len(got) < Len(sent)
           /\ got' = Append(got, sent[Len(got) + 1])
           /\ UNCHANGED sent

Next == Dequeue \/ \E m \in Msgs : Enqueue(m)

Spec == Init /\ [][Next]_vars

\* Somebody dequeues what was enqueued.
Fairness == WF_vars(Dequeue)

FairSpec == Spec /\ Fairness
==============================================================================
