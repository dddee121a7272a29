----------------------------- MODULE MessageQueue -----------------------------
(***************************************************************************)
(* csf_assign05/message_queue.cpp: the queue of Messages awaiting delivery *)
(* to one receiver.  Threads call enqueue (the broadcasting workers) and   *)
(* dequeue (the receiver's own worker); m_lock protects the deque and the  *)
(* semaphore m_avail counts what may be taken.  The semaphore is posted    *)
(* after m_lock is released and waited on before it is taken, so the deque *)
(* and the count are never updated together.  One action per line that     *)
(* another thread can come between.                                        *)
(***************************************************************************)
EXTENDS Naturals, Sequences, FiniteSets

CONSTANTS Producers,  \* threads that call enqueue
          Consumers,  \* threads that call dequeue
          Msgs,       \* the messages
          MaxSent,    \* bound: calls of enqueue that get as far as the push
          Free        \* the value of m_lock when no thread holds it

Threads == Producers \cup Consumers

ASSUME ThreadsAssumption ==
  /\ IsFiniteSet(Producers)
  /\ IsFiniteSet(Consumers)
  /\ Producers \cap Consumers = {}
  /\ Free \notin Threads

ASSUME MaxSentAssumption == MaxSent \in Nat

VARIABLES m_lock,      \* the holder of the mutex, or Free
          m_messages,  \* the deque
          m_avail,     \* the value of the semaphore
          pc,          \* the next step of each thread
          arg,         \* the message each producer is enqueueing
          sent, got    \* history: what was pushed, what was popped

vars == <<m_lock, m_messages, m_avail, pc, arg, sent, got>>

EnqueueSteps == {"idle", "e_lock", "push", "e_unlock", "post"}
DequeueSteps == {"idle", "wait", "d_lock", "pop", "d_unlock"}

Init ==
  /\ m_lock = Free
  /\ m_messages = <<>>
  /\ m_avail = 0
  /\ pc = [t \in Threads |-> "idle"]
  /\ arg \in [Producers -> Msgs]  \* not read before Call sets it
  /\ sent = <<>>
  /\ got = <<>>

\* A definition marked "Bug" is no part of the model: it takes the place of the
\* one that follows it to see that the properties notice.
Step(t, from, to) == pc[t] = from /\ pc' = [pc EXCEPT ![t] = to]

\* Bug: the mutex is not waited for.
LockUnguarded(t, from, to) ==
  /\ Step(t, from, to)
  /\ m_lock' = t
  /\ UNCHANGED <<m_messages, m_avail, arg, sent, got>>

Lock(t, from, to) ==
  /\ Step(t, from, to)
  /\ m_lock = Free
  /\ m_lock' = t
  /\ UNCHANGED <<m_messages, m_avail, arg, sent, got>>

\* Bug: dequeue returns without unlocking.
UnlockForgotten(t, from, to) ==
  /\ Step(t, from, to)
  /\ m_lock' = IF to = "idle" THEN m_lock ELSE Free
  /\ UNCHANGED <<m_messages, m_avail, arg, sent, got>>

Unlock(t, from, to) ==
  /\ Step(t, from, to)
  /\ m_lock' = Free
  /\ UNCHANGED <<m_messages, m_avail, arg, sent, got>>

------------------------------------------------------------------------------
(* enqueue *)

Call(p, m) ==
  /\ Step(p, "idle", "e_lock")
  /\ Len(sent) < MaxSent
  /\ arg' = [arg EXCEPT ![p] = m]
  /\ UNCHANGED <<m_lock, m_messages, m_avail, sent, got>>

\* Bug: push_front.
PushFront(p) ==
  /\ Step(p, "push", "e_unlock")
  /\ m_messages' = <<arg[p]>> \o m_messages
  /\ sent' = Append(sent, arg[p])
  /\ UNCHANGED <<m_lock, m_avail, arg, got>>

Push(p) ==
  /\ Step(p, "push", "e_unlock")
  /\ m_messages' = Append(m_messages, arg[p])
  /\ sent' = Append(sent, arg[p])
  /\ UNCHANGED <<m_lock, m_avail, arg, got>>

\* Bug: the semaphore is posted only for a queue that was empty.
PostIfEmpty(p) ==
  /\ Step(p, "post", "idle")
  /\ m_avail' = IF Len(m_messages) = 1 THEN m_avail + 1 ELSE m_avail
  /\ UNCHANGED <<m_lock, m_messages, arg, sent, got>>

Post(p) ==
  /\ Step(p, "post", "idle")
  /\ m_avail' = m_avail + 1
  /\ UNCHANGED <<m_lock, m_messages, arg, sent, got>>

Enqueue(p) == \/ Lock(p, "e_lock", "push")
              \/ Push(p)
              \/ Unlock(p, "e_unlock", "post")
              \/ Post(p)

------------------------------------------------------------------------------
(* dequeue *)

\* The deadline is computed; the thread goes to sleep in sem_timedwait.
Wait(c) ==
  /\ Step(c, "idle", "wait")
  /\ UNCHANGED <<m_lock, m_messages, m_avail, arg, sent, got>>

\* One second passed and the semaphore could not be decremented: nullptr.
TimeOut(c) ==
  /\ Step(c, "wait", "idle")
  /\ m_avail = 0
  /\ UNCHANGED <<m_lock, m_messages, m_avail, arg, sent, got>>

Claim(c) ==
  /\ Step(c, "wait", "d_lock")
  /\ m_avail > 0
  /\ m_avail' = m_avail - 1
  /\ UNCHANGED <<m_lock, m_messages, arg, sent, got>>

\* assert(!m_messages.empty()) is the invariant NeverPopsEmpty.
Pop(c) ==
  /\ Step(c, "pop", "d_unlock")
  /\ got' = Append(got, Head(m_messages))
  /\ m_messages' = Tail(m_messages)
  /\ UNCHANGED <<m_lock, m_avail, arg, sent>>

Dequeue(c) == \/ Wait(c)
              \/ TimeOut(c)
              \/ Claim(c)
              \/ Lock(c, "d_lock", "pop")
              \/ Pop(c)
              \/ Unlock(c, "d_unlock", "idle")

------------------------------------------------------------------------------
Next == \/ \E p \in Producers : Enqueue(p) \/ \E m \in Msgs : Call(p, m)
        \/ \E c \in Consumers : Dequeue(c)

Spec == Init /\ [][Next]_vars

\* A thread that can run eventually does, and a consumer calls dequeue again
\* after every return (chat_with_receiver loops).  No producer has to call.
FairSpec == /\ Spec
            /\ \A p \in Producers : WF_vars(Enqueue(p))
            /\ \A c \in Consumers : WF_vars(Dequeue(c))

------------------------------------------------------------------------------
\* Every variable keeps to its values; in particular the semaphore is never
\* decremented below zero.
TypeOK ==
  /\ m_lock \in Threads \cup {Free}
  /\ m_messages \in Seq(Msgs)
  /\ m_avail \in Nat
  /\ pc \in [Threads -> EnqueueSteps \cup DequeueSteps]
  /\ \A p \in Producers : pc[p] \in EnqueueSteps
  /\ \A c \in Consumers : pc[c] \in DequeueSteps
  /\ arg \in [Producers -> Msgs]
  /\ sent \in Seq(Msgs)
  /\ got \in Seq(Msgs)

\* The threads between lock and unlock.
Critical == {t \in Threads : pc[t] \in {"push", "e_unlock", "pop", "d_unlock"}}

\* Exactly the holder of m_lock is between pthread_mutex_lock and unlock: no
\* two threads touch the deque at once, and nobody returns holding the lock.
MutualExclusion == \A t \in Threads : t \in Critical <=> m_lock = t

\* Messages in the deque whose semaphore count is not there: pushed and not
\* posted yet, or claimed by sem_timedwait and not popped yet.
Unposted == {p \in Producers : pc[p] \in {"e_unlock", "post"}}
Claimed == {c \in Consumers : pc[c] \in {"d_lock", "pop"}}

\* The header says the semaphore "keeps a count of how many messages are
\* currently in the queue".  What is true at every step: the count falls
\* short of the deque by the enqueues and dequeues under way, never exceeds it.
SemaphoreCounts ==
  Len(m_messages) = m_avail + Cardinality(Unposted) + Cardinality(Claimed)

\* The assertion in dequeue never fails: whoever was let through by the
\* semaphore finds a message, however the threads interleave.
NeverPopsEmpty == \A c \in Consumers : pc[c] = "pop" => m_messages # <<>>

\* Every thread that entered enqueue or dequeue comes out of it: enqueue
\* "will not block" and dequeue "blocks for at most a finite amount of time".
CallsReturn == \A t \in Threads : pc[t] # "idle" ~> pc[t] = "idle"

\* The queue loses, duplicates and reorders nothing.
Fifo == INSTANCE FifoQueue
ImplementsFifo == Fifo!Spec
\* ... and whatever is enqueued is dequeued in the end.
EverythingComesOut == Fifo!Fairness
===============================================================================
