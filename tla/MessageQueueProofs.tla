-------------------------- MODULE MessageQueueProofs --------------------------
(***************************************************************************)
(* MessageQueue for any number of threads, messages and calls: its         *)
(* invariants, and that it implements the safety part of FifoQueue.        *)
(*                                                                         *)
(* The inductive invariant is Inv.  What pop finds in the deque depends on *)
(* how many threads are between a push and its post or between a claim and *)
(* its pop, hence SemaphoreCounts; that each of them is alone in the       *)
(* critical section plays no part in it, the lock makes push and pop       *)
(* atomic.  Conserved ties the deque to the history FifoQueue speaks of.   *)
(***************************************************************************)
EXTENDS MessageQueue, FiniteSetTheorems, SequenceTheorems, TLAPS

\* The deque is what was pushed and not popped, in order.
Conserved == sent = got \o m_messages

Inv == TypeOK /\ MutualExclusion /\ SemaphoreCounts /\ Conserved

------------------------------------------------------------------------------
(* The sets SemaphoreCounts counts *)

\* Both are sets of threads, of which there are finitely many.
LEMMA CountedFinite ==
  /\ IsFiniteSet(Unposted) /\ Cardinality(Unposted) \in Nat
  /\ IsFiniteSet(Claimed) /\ Cardinality(Claimed) \in Nat
BY FS_Subset, FS_CardinalityType, ThreadsAssumption DEF Unposted, Claimed

\* Counting one element more, and one less.
LEMMA CountOneMore ==
  ASSUME NEW S, NEW T, NEW x, IsFiniteSet(S), x \notin S, T = S \cup {x}
  PROVE  Cardinality(T) = Cardinality(S) + 1
BY FS_AddElement

LEMMA CountOneLess ==
  ASSUME NEW S, NEW T, NEW x, IsFiniteSet(S), x \in S, T = S \ {x}
  PROVE  Cardinality(T) = Cardinality(S) - 1
BY FS_RemoveElement

\* A thread that claimed a message and has not popped it will find one.
LEMMA ClaimedFindsMessage ==
  ASSUME TypeOK, SemaphoreCounts, Claimed # {}
  PROVE  Len(m_messages) > 0 /\ m_messages # <<>>
<1>1. Cardinality(Claimed) # 0
  BY CountedFinite, FS_EmptySet
<1>2. Len(m_messages) > 0
  BY <1>1, CountedFinite DEF SemaphoreCounts, TypeOK
<1> QED
  BY <1>2, EmptySeq

------------------------------------------------------------------------------
(* Type correctness *)

LEMMA TypeInit == Init => TypeOK
BY DEF Init, TypeOK, Threads, EnqueueSteps, DequeueSteps

LEMMA TypeStep == ASSUME Inv, [Next]_vars PROVE TypeOK'
<1> USE ThreadsAssumption DEF Inv, TypeOK, Threads, EnqueueSteps, DequeueSteps
<1>1. ASSUME NEW p \in Producers, Enqueue(p) PROVE TypeOK'
  <2>1. CASE Lock(p, "e_lock", "push")
    BY <2>1 DEF Lock, Step
  <2>2. CASE Push(p)
    BY <2>2, AppendProperties DEF Push, Step
  <2>3. CASE Unlock(p, "e_unlock", "post")
    BY <2>3 DEF Unlock, Step
  <2>4. CASE Post(p)
    BY <2>4 DEF Post, Step
  <2> QED
    BY <1>1, <2>1, <2>2, <2>3, <2>4 DEF Enqueue
<1>2. ASSUME NEW p \in Producers, NEW m \in Msgs, Call(p, m) PROVE TypeOK'
  BY <1>2 DEF Call, Step
<1>3. ASSUME NEW c \in Consumers, Dequeue(c) PROVE TypeOK'
  <2>1. CASE Wait(c)
    BY <2>1 DEF Wait, Step
  <2>2. CASE TimeOut(c)
    BY <2>2 DEF TimeOut, Step
  <2>3. CASE Claim(c)
    BY <2>3 DEF Claim, Step
  <2>4. CASE Lock(c, "d_lock", "pop")
    BY <2>4 DEF Lock, Step
  <2>5. CASE Pop(c)
    <3>1. m_messages # <<>>
      BY <2>5, ClaimedFindsMessage DEF Pop, Step, Claimed
    <3> QED
      BY <2>5, <3>1, HeadTailProperties, AppendProperties DEF Pop, Step
  <2>6. CASE Unlock(c, "d_unlock", "idle")
    BY <2>6 DEF Unlock, Step
  <2> QED
    BY <1>3, <2>1, <2>2, <2>3, <2>4, <2>5, <2>6 DEF Dequeue
<1>4. CASE UNCHANGED vars
  BY <1>4 DEF vars
<1> QED
  BY <1>1, <1>2, <1>3, <1>4 DEF Next

------------------------------------------------------------------------------
(* The lock *)

LEMMA MutualExclusionStep ==
  ASSUME Inv, [Next]_vars PROVE MutualExclusion'
<1> USE ThreadsAssumption
    DEF Inv, TypeOK, MutualExclusion, Critical, Threads, Step
<1>1. ASSUME NEW p \in Producers, Enqueue(p) PROVE MutualExclusion'
  BY <1>1 DEF Enqueue, Lock, Push, Unlock, Post
<1>2. ASSUME NEW p \in Producers, NEW m \in Msgs, Call(p, m)
      PROVE  MutualExclusion'
  BY <1>2 DEF Call
<1>3. ASSUME NEW c \in Consumers, Dequeue(c) PROVE MutualExclusion'
  BY <1>3 DEF Dequeue, Wait, TimeOut, Claim, Lock, Pop, Unlock
<1>4. CASE UNCHANGED vars
  BY <1>4 DEF vars
<1> QED
  BY <1>1, <1>2, <1>3, <1>4 DEF Next

------------------------------------------------------------------------------
(* The semaphore *)

LEMMA SemaphoreStep == ASSUME Inv, [Next]_vars PROVE SemaphoreCounts'
<1> USE ThreadsAssumption, CountedFinite DEF Inv, TypeOK, Threads, Step
<1> DEFINE Same == /\ Len(m_messages') = Len(m_messages)
                   /\ m_avail' = m_avail
                   /\ Unposted' = Unposted /\ Claimed' = Claimed
<1>0. Same => SemaphoreCounts'
  BY DEF SemaphoreCounts
<1>1. ASSUME NEW p \in Producers, Push(p) PROVE SemaphoreCounts'
  <2>1. p \notin Unposted /\ Unposted' = Unposted \cup {p} /\ Claimed' = Claimed
    BY <1>1 DEF Push, Unposted, Claimed
  <2>2. Cardinality(Unposted') = Cardinality(Unposted) + 1
    BY <2>1, CountOneMore
  <2>3. Len(m_messages') = Len(m_messages) + 1 /\ m_avail' = m_avail
    BY <1>1, AppendProperties DEF Push
  <2> QED
    BY <2>1, <2>2, <2>3 DEF SemaphoreCounts
<1>2. ASSUME NEW p \in Producers, Post(p) PROVE SemaphoreCounts'
  <2>1. p \in Unposted /\ Unposted' = Unposted \ {p} /\ Claimed' = Claimed
    BY <1>2 DEF Post, Unposted, Claimed
  <2>2. Cardinality(Unposted') = Cardinality(Unposted) - 1
    BY <2>1, CountOneLess
  <2> QED
    BY <1>2, <2>1, <2>2 DEF SemaphoreCounts, Post
<1>3. ASSUME NEW c \in Consumers, Claim(c) PROVE SemaphoreCounts'
  <2>1. c \notin Claimed /\ Claimed' = Claimed \cup {c} /\ Unposted' = Unposted
    BY <1>3 DEF Claim, Unposted, Claimed
  <2>2. Cardinality(Claimed') = Cardinality(Claimed) + 1
    BY <2>1, CountOneMore
  <2> QED
    BY <1>3, <2>1, <2>2 DEF SemaphoreCounts, Claim
<1>4. ASSUME NEW c \in Consumers, Pop(c) PROVE SemaphoreCounts'
  <2>1. c \in Claimed /\ Claimed' = Claimed \ {c} /\ Unposted' = Unposted
    BY <1>4 DEF Pop, Unposted, Claimed
  <2>2. Cardinality(Claimed') = Cardinality(Claimed) - 1
    BY <2>1, CountOneLess
  <2>3. m_messages # <<>>
    BY <2>1, ClaimedFindsMessage
  <2>4. Len(m_messages') = Len(m_messages) - 1 /\ m_avail' = m_avail
    BY <1>4, <2>3, HeadTailProperties DEF Pop
  <2> QED
    BY <2>1, <2>2, <2>4 DEF SemaphoreCounts
<1>5. ASSUME NEW t \in Threads,
             \/ Lock(t, "e_lock", "push") \/ Unlock(t, "e_unlock", "post")
             \/ Lock(t, "d_lock", "pop") \/ Unlock(t, "d_unlock", "idle")
      PROVE  SemaphoreCounts'
  <2>1. Same
    BY <1>5 DEF Lock, Unlock, Unposted, Claimed
  <2> QED
    BY <2>1, <1>0
<1>6. ASSUME NEW p \in Producers, NEW m \in Msgs, Call(p, m)
      PROVE  SemaphoreCounts'
  <2>1. Same
    BY <1>6 DEF Call, Unposted, Claimed
  <2> QED
    BY <2>1, <1>0
<1>7. ASSUME NEW c \in Consumers, Wait(c) \/ TimeOut(c) PROVE SemaphoreCounts'
  <2>1. Same
    BY <1>7 DEF Wait, TimeOut, Unposted, Claimed
  <2> QED
    BY <2>1, <1>0
<1>8. CASE UNCHANGED vars
  BY <1>8, <1>0 DEF vars, Unposted, Claimed
<1> QED
  BY <1>1, <1>2, <1>3, <1>4, <1>5, <1>6, <1>7, <1>8 DEF Next, Enqueue, Dequeue

------------------------------------------------------------------------------
(* The history *)

\* Push appends to the end of both sides.
LEMMA PushConserves ==
  ASSUME Inv, NEW p \in Producers, Push(p)
  PROVE  Conserved'
<1>1. got \in Seq(Msgs) /\ m_messages \in Seq(Msgs) /\ <<arg[p]>> \in Seq(Msgs)
  BY DEF Inv, TypeOK
<1>2. sent' = (got \o m_messages) \o <<arg[p]>>
  BY <1>1, ConcatProperties, AppendIsConcat DEF Inv, TypeOK, Conserved, Push
<1>3. m_messages' = m_messages \o <<arg[p]>> /\ got' = got
  BY <1>1, AppendIsConcat DEF Inv, TypeOK, Push
<1> QED
  BY <1>1, <1>2, <1>3, ConcatAssociative DEF Conserved

\* Pop moves the first message of the deque to the end of got, and it is the
\* one FifoQueue says comes next.
LEMMA PopIsNext ==
  ASSUME Inv, NEW c \in Consumers, Pop(c)
  PROVE  Conserved' /\ Fifo!Dequeue
<1> DEFINE h == Head(m_messages)
           q == Tail(m_messages)
<1>1. m_messages # <<>> /\ Len(m_messages) > 0
  BY ClaimedFindsMessage DEF Inv, Pop, Step, Claimed
<1>2. h \in Msgs /\ q \in Seq(Msgs) /\ got \in Seq(Msgs) /\ m_messages \in Seq(Msgs)
  BY <1>1, HeadTailProperties DEF Inv, TypeOK
<1>3. m_messages = <<h>> \o q
  <2>1. SubSeq(m_messages, 1, Len(m_messages))
           = <<m_messages[1]>> \o SubSeq(m_messages, 2, Len(m_messages))
    BY <1>1, <1>2, SubSeqRecursiveFirst, LenProperties
  <2> QED
    BY <1>1, <1>2, <2>1, SubSeqFull, TailIsSubSeq
<1>4. got' = got \o <<h>> /\ m_messages' = q
  BY <1>2, AppendIsConcat DEF Pop
<1>5. sent = (got \o <<h>>) \o q
  <2>1. <<h>> \in Seq(Msgs)
    BY <1>2
  <2> QED
    BY <1>2, <1>3, <2>1, ConcatAssociative DEF Inv, Conserved
<1>6. Len(got) < Len(sent) /\ sent[Len(got) + 1] = h
  <2>1. Len(got) \in Nat /\ Len(m_messages) \in Nat
    BY <1>2, LenProperties
  <2>2. Len(got \o m_messages) = Len(got) + Len(m_messages)
    BY <1>2, ConcatProperties
  <2>3. (got \o m_messages)[Len(got) + 1] = m_messages[1]
    BY <1>1, <1>2, <2>1, ConcatProperties
  <2> QED
    BY <1>1, <1>2, <2>1, <2>2, <2>3 DEF Inv, Conserved
<1>7. got' = Append(got, h) /\ UNCHANGED sent
  BY DEF Pop
<1> QED
  BY <1>4, <1>5, <1>6, <1>7 DEF Conserved, Fifo!Dequeue

LEMMA ConservedStep == ASSUME Inv, [Next]_vars PROVE Conserved'
<1>1. ASSUME NEW p \in Producers, Push(p) PROVE Conserved'
  BY <1>1, PushConserves
<1>2. ASSUME NEW c \in Consumers, Pop(c) PROVE Conserved'
  BY <1>2, PopIsNext
<1>3. UNCHANGED <<m_messages, sent, got>> => Conserved'
  BY DEF Inv, Conserved
<1> QED
  BY <1>1, <1>2, <1>3 DEF Next, Enqueue, Dequeue, Lock, Unlock, Post, Call, Wait,
     TimeOut, Claim, vars

------------------------------------------------------------------------------
(* The theorems *)

LEMMA InvInit == Init => Inv
<1> SUFFICES ASSUME Init PROVE Inv
  OBVIOUS
<1>1. TypeOK
  BY TypeInit
<1>2. MutualExclusion
  BY ThreadsAssumption DEF Init, MutualExclusion, Critical
<1>3. SemaphoreCounts
  <2>1. Unposted = {} /\ Claimed = {}
    BY DEF Init, Unposted, Claimed, Threads
  <2> QED
    BY <2>1, FS_EmptySet DEF Init, SemaphoreCounts
<1>4. Conserved
  BY DEF Init, Conserved
<1> QED
  BY <1>1, <1>2, <1>3, <1>4 DEF Inv

\* Inv holds in every state that enqueue and dequeue can bring about.
THEOREM Invariance == Spec => []Inv
<1>1. Inv /\ [Next]_vars => Inv'
  BY TypeStep, MutualExclusionStep, SemaphoreStep, ConservedStep DEF Inv
<1> QED
  BY InvInit, <1>1, PTL DEF Spec

\* The variables of enqueue and dequeue keep their types.
THEOREM TypeCorrect == Spec => []TypeOK
BY Invariance, PTL DEF Inv

\* m_lock is held by the one thread between its lock and its unlock.
THEOREM Exclusion == Spec => []MutualExclusion
BY Invariance, PTL DEF Inv

\* The semaphore never counts a message that is not in the deque.
THEOREM SemaphoreCorrect == Spec => []SemaphoreCounts
BY Invariance, PTL DEF Inv

\* assert(!m_messages.empty()) in dequeue cannot fail.
THEOREM AssertionHolds == Spec => []NeverPopsEmpty
<1>1. Inv => NeverPopsEmpty
  BY ClaimedFindsMessage DEF Inv, NeverPopsEmpty, Claimed
<1> QED
  BY Invariance, <1>1, PTL

\* The queue is first-in first-out and loses or repeats nothing, in whatever
\* order its callers run.
THEOREM QueueImplementsFifo == Spec => ImplementsFifo
<1>1. Init => Fifo!Init
  BY DEF Init, Fifo!Init
<1>2. Inv /\ [Next]_vars => [Fifo!Next]_Fifo!vars
  <2> SUFFICES ASSUME Inv, [Next]_vars PROVE [Fifo!Next]_Fifo!vars
    OBVIOUS
  <2>1. ASSUME NEW p \in Producers, Push(p) PROVE Fifo!Next
    <3>1. arg[p] \in Msgs /\ Fifo!Enqueue(arg[p])
      BY <2>1 DEF Push, Inv, TypeOK, Fifo!Enqueue
    <3> QED
      BY <3>1 DEF Fifo!Next
  <2>2. ASSUME NEW c \in Consumers, Pop(c) PROVE Fifo!Next
    BY <2>2, PopIsNext DEF Fifo!Next
  <2> QED
    BY <2>1, <2>2 DEF Next, Enqueue, Dequeue, Lock, Unlock, Post, Call, Wait,
       TimeOut, Claim, vars, Fifo!vars
<1> QED
  BY <1>1, <1>2, Invariance, PTL DEF Spec, ImplementsFifo, Fifo!Spec
===============================================================================
