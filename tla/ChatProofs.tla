------------------------------ MODULE ChatProofs ------------------------------
(***************************************************************************)
(* ChatServer for any number of connections, rooms, texts and requests:    *)
(* type correctness, who holds which lock, who is in which room, and that  *)
(* no broadcast reaches a User that was deleted.                           *)
(*                                                                         *)
(* The conjuncts of Inv need each other.  NoUseAfterFree: the member a     *)
(* broadcast is at was in the set when it was picked, and remove_member    *)
(* waits for the lock the broadcast holds (CursorIsMember, RoomLockExact); *)
(* a worker deletes its User only after remove_member (MembershipExact).   *)
(* RoomUnique: only the holder of m_lock writes the map, and it saw that   *)
(* the name was free since it took the lock (MapExact).  That dequeue finds*)
(* a message when the semaphore lets it through needs AvailExact, which in *)
(* turn needs that nobody is about to post a semaphore that was destroyed. *)
(*                                                                         *)
(* On Inv rests StreamInv, about what reaches the receivers: StreamExact,  *)
(* and that the server implements RoomBroadcast (its safety part).  A      *)
(* member's stream is written, in hand or queued; a broadcast under way    *)
(* still owes it one message.  The stream grows at BroadcastPush by the    *)
(* message BroadcastLock put at the end of the log (LoopExact), after the  *)
(* member joined (JoinedInLog), and starts empty (Untouched); dequeuing    *)
(* and writing only move messages along it, one at a time (HandExact).     *)
(***************************************************************************)
EXTENDS ChatProperties, FiniteSetTheorems, SequenceTheorems, TLAPS

\* A User lives from login to the end of its worker.
UserExact ==
  \A w \in Workers :
    user[w] = "live" <=> pc[w] \notin {"offline", "orphan", "login", "done"}

\* Arguments are there when they are used.
ArgumentsThere ==
  \A w \in Workers :
    /\ pc[w] \in FindSteps => name[w] \in Names
    /\ pc[w] \in {"add", "join_ok", "dequeue", "send", "remove"}
                 \cup BroadcastSteps
         => room[w] \in Rooms
    /\ pc[w] \in BroadcastSteps => msg[w] \in Messages

\* The map of rooms and the mutex that guards it.
MapExact ==
  /\ \A n \in Names : m_rooms[n] # Null => RoomName(m_rooms[n]) = n
  /\ \A w \in Workers : m_lock = w <=> pc[w] \in {"lookup", "create"}
  /\ \A w \in Workers : pc[w] = "create" => m_rooms[name[w]] = Null

CursorIsMember ==
  \A w \in Workers :
    pc[w] \in {"b_push", "b_post"} => cur[w] \in members[room[w]]

Inv == /\ TypeOK /\ UserExact /\ ArgumentsThere /\ MapExact /\ RoomUnique
       /\ MembershipExact /\ RoomLockExact /\ CursorIsMember /\ AvailExact

------------------------------------------------------------------------------
(* The steps of a worker, in groups that most conjuncts treat alike *)

\* The connection, the login and the requests that change nothing but the pc.
MovesOn(w) == \/ Accept(w) \/ Disconnect(w) \/ EndOfInput(w) \/ LoginFails(w)
              \/ ReceiverRefused(w) \/ Quit(w) \/ Refuse(w) \/ Reply(w)

Asks(w) == \/ \E as \in {"receiver", "sender"} : Login(w, as)
           \/ \E n \in Names : ReceiverJoins(w, n)
           \/ \E n \in Names : SenderJoins(w, n)
           \/ SenderLeaves(w)
           \/ \E t \in Texts : SendAll(w, t)

\* The receiver enters and leaves its room; its queue is emptied.
ComesOrGoes(w) == AddMember(w) \/ JoinOk(w) \/ RemoveMember(w) \/ Delete(w)
Drains(w) == Dequeue(w) \/ Deliver(w) \/ DeliverFails(w)

------------------------------------------------------------------------------
(* Facts about a single state *)

\* The broadcasts about to post are finitely many.
LEMMA PostingFinite ==
  ASSUME NEW w \in Workers
  PROVE  IsFiniteSet(Posting(w)) /\ Cardinality(Posting(w)) \in Nat
BY FS_Subset, FS_CardinalityType, WorkersAssumption DEF Posting

\* sem_timedwait succeeded: the deque is not empty.
LEMMA AvailFindsMessage ==
  ASSUME TypeOK, AvailExact, NEW w \in Workers, avail[w] > 0
  PROVE  queue[w] # <<>>
<1>1. Len(queue[w]) > 0
  BY PostingFinite DEF TypeOK, AvailExact
<1> QED
  BY <1>1, EmptySeq

\* The member a broadcast is at still runs, before its remove_member.
LEMMA CursorRuns ==
  ASSUME Inv, NEW w \in Workers, pc[w] \in {"b_push", "b_post"}
  PROVE  /\ cur[w] \in Workers
         /\ pc[cur[w]] \in {"join_ok", "dequeue", "send", "remove"}
<1>1. room[w] \in Rooms /\ cur[w] \in members[room[w]]
  BY DEF Inv, ArgumentsThere, BroadcastSteps, CursorIsMember
<1>2. cur[w] \in Workers
  BY <1>1 DEF Inv, TypeOK
<1> QED
  BY <1>1, <1>2 DEF Inv, MembershipExact

\* The invariant that matters most follows from the others.
LEMMA InvNoUseAfterFree == Inv => NoUseAfterFree
BY CursorRuns DEF Inv, UserExact, NoUseAfterFree

------------------------------------------------------------------------------
(* Type correctness *)

\* Every variable starts with a value of its type.
LEMMA TypeInit == Init => TypeOK
BY DEF Init, TypeOK, Steps

\* A step that only changes the pc of a worker keeps the types.
LEMMA MoveType ==
  ASSUME TypeOK, NEW w \in Workers, NEW from, NEW to \in Steps,
         Move(w, from, to)
  PROVE  TypeOK'
BY DEF TypeOK, Move, Step, session, server, roomVars, loop, stream

\* A semaphore that is posted counts one more.
LEMMA PostType == ASSUME TypeOK, NEW u \in Workers PROVE avail[u] + 1 \in Nat
BY DEF TypeOK

\* Every step keeps the types.  The one that needs more than types is Dequeue:
\* there is a message to take when the semaphore lets the worker through.
LEMMA TypeStep == ASSUME Inv, [Next]_vars PROVE TypeOK'
<1> USE DEF Inv, TypeOK, Step, Steps, FindSteps, BroadcastSteps, ReceiverSteps,
            SenderSteps, session, server, roomVars, loop, stream
<1>1. ASSUME NEW w \in Workers, Accept(w) PROVE TypeOK'
  BY <1>1, MoveType DEF Accept
<1>2. ASSUME NEW w \in Workers, Disconnect(w) PROVE TypeOK'
  BY <1>2 DEF Disconnect
<1>3. ASSUME NEW w \in Workers, EndOfInput(w) PROVE TypeOK'
  BY <1>3, MoveType DEF EndOfInput
<1>4. ASSUME NEW w \in Workers, LoginFails(w) PROVE TypeOK'
  BY <1>4, MoveType DEF LoginFails
<1>5. ASSUME NEW w \in Workers, NEW as \in {"receiver", "sender"}, Login(w, as)
      PROVE  TypeOK'
  BY <1>5 DEF Login
<1>6. ASSUME NEW w \in Workers, ReceiverRefused(w) PROVE TypeOK'
  BY <1>6, MoveType DEF ReceiverRefused
<1>7. ASSUME NEW w \in Workers, NEW n \in Names, ReceiverJoins(w, n)
      PROVE  TypeOK'
  BY <1>7 DEF ReceiverJoins
<1>8. ASSUME NEW w \in Workers, NEW n \in Names, SenderJoins(w, n) PROVE TypeOK'
  BY <1>8 DEF SenderJoins
<1>9. ASSUME NEW w \in Workers, Quit(w) PROVE TypeOK'
  BY <1>9, MoveType DEF Quit
<1>10. ASSUME NEW w \in Workers, Refuse(w) PROVE TypeOK'
  BY <1>10, MoveType DEF Refuse
<1>11. ASSUME NEW w \in Workers, SenderLeaves(w) PROVE TypeOK'
  BY <1>11 DEF SenderLeaves
<1>12. ASSUME NEW w \in Workers, NEW t \in Texts, SendAll(w, t) PROVE TypeOK'
  <2>1. <<w, t>> \in Messages
    BY DEF Messages
  <2> QED
    BY <1>12, <2>1 DEF SendAll
<1>13. ASSUME NEW w \in Workers, FindLock(w) PROVE TypeOK'
  BY <1>13 DEF FindLock
<1>14. ASSUME NEW w \in Workers, FindMisses(w) PROVE TypeOK'
  BY <1>14, MoveType DEF FindMisses
<1>15. ASSUME NEW w \in Workers, FindReturns(w) PROVE TypeOK'
  BY <1>15 DEF FindReturns, Return, ArgumentsThere
<1>16. ASSUME NEW w \in Workers, Create(w) PROVE TypeOK'
  BY <1>16 DEF Create, Return, ArgumentsThere, Rooms
<1>17. ASSUME NEW w \in Workers, AddMember(w) PROVE TypeOK'
  BY <1>17, LenProperties DEF AddMember, ArgumentsThere
<1>18. ASSUME NEW w \in Workers, JoinOk(w) PROVE TypeOK'
  BY <1>18, MoveType DEF JoinOk
<1>19. ASSUME NEW w \in Workers, Dequeue(w) PROVE TypeOK'
  <2>1. queue[w] # <<>>
    BY <1>19, AvailFindsMessage DEF Dequeue
  <2>2. Head(queue[w]) \in Messages /\ Tail(queue[w]) \in Seq(Messages)
    BY <2>1, HeadTailProperties
  <2>3. <<Head(queue[w])>> \in Seq(Messages)
    BY <2>2
  <2> QED
    BY <1>19, <2>2, <2>3 DEF Dequeue
<1>20. ASSUME NEW w \in Workers, Deliver(w) PROVE TypeOK'
  BY <1>20, ConcatProperties DEF Deliver
<1>21. ASSUME NEW w \in Workers, DeliverFails(w) PROVE TypeOK'
  BY <1>21 DEF DeliverFails
<1>22. ASSUME NEW w \in Workers, RemoveMember(w) PROVE TypeOK'
  BY <1>22 DEF RemoveMember
<1>23. ASSUME NEW w \in Workers, BroadcastLock(w) PROVE TypeOK'
  BY <1>23, AppendProperties DEF BroadcastLock, ArgumentsThere
<1>24. ASSUME NEW w \in Workers, NEW u \in Workers, BroadcastNext(w, u)
      PROVE  TypeOK'
  BY <1>24 DEF BroadcastNext
<1>25. ASSUME NEW w \in Workers, BroadcastPush(w) PROVE TypeOK'
  <2>1. cur[w] \in Workers /\ msg[w] \in Messages
    BY <1>25, CursorRuns DEF BroadcastPush, ArgumentsThere
  <2>2. Append(queue[cur[w]], msg[w]) \in Seq(Messages)
    BY <2>1, AppendProperties
  <2>3. queue' \in [Workers -> Seq(Messages)]
    BY <1>25, <2>2 DEF BroadcastPush
  <2> QED
    BY <1>25, <2>3, SMTT(30) DEF BroadcastPush
<1>26. ASSUME NEW w \in Workers, BroadcastPost(w) PROVE TypeOK'
  <2>1. cur[w] \in Workers
    BY <1>26, CursorRuns DEF BroadcastPost
  <2>2. avail[cur[w]] + 1 \in Nat
    BY <2>1, PostType
  <2>3. avail' \in [Workers -> Nat]
    BY <1>26, <2>2 DEF BroadcastPost
  <2> QED
    BY <1>26, <2>3 DEF BroadcastPost
<1>27. ASSUME NEW w \in Workers, BroadcastUnlock(w) PROVE TypeOK'
  BY <1>27 DEF BroadcastUnlock
<1>28. ASSUME NEW w \in Workers, Reply(w) PROVE TypeOK'
  BY <1>28, MoveType DEF Reply
<1>29. ASSUME NEW w \in Workers, Delete(w) PROVE TypeOK'
  BY <1>29 DEF Delete
<1>30. CASE UNCHANGED vars
  BY <1>30 DEF vars
<1> QED
  BY <1>1, <1>2, <1>3, <1>4, <1>5, <1>6, <1>7, <1>8, <1>9, <1>10, <1>11, <1>12,
     <1>13, <1>14, <1>15, <1>16, <1>17, <1>18, <1>19, <1>20, <1>21, <1>22,
     <1>23, <1>24, <1>25, <1>26, <1>27, <1>28, <1>29, <1>30
     DEF Next, Request, Run, FindOrCreateRoom, Broadcast, MovesOn, Asks,
         ComesOrGoes, Drains

------------------------------------------------------------------------------
(* Lifetimes, rooms and locks *)

\* A User is created at login and freed in the last step of its worker.
LEMMA UserStep == ASSUME Inv, [Next]_vars PROVE UserExact'
<1>0. /\ pc \in [Workers -> Steps]
       /\ user \in [Workers -> {"none", "live", "freed"}]
       /\ UserExact
  BY DEF Inv, TypeOK
<1> USE <1>0, NullAssumption DEF UserExact, Step, Move
<1>1. ASSUME NEW w \in Workers, MovesOn(w) PROVE UserExact'
  BY <1>1
     DEF MovesOn, Accept, Disconnect, EndOfInput, LoginFails, ReceiverRefused,
         Quit, Refuse, Reply
<1>2. ASSUME NEW w \in Workers, Asks(w) PROVE UserExact'
  BY <1>2
     DEF Asks, Login, ReceiverJoins, SenderJoins, SenderLeaves, SendAll,
         Messages
<1>3. ASSUME NEW w \in Workers, FindOrCreateRoom(w) PROVE UserExact'
  BY <1>3
     DEF FindOrCreateRoom, FindLock, FindMisses, FindReturns, Return, Create,
         Rooms
<1>4. ASSUME NEW w \in Workers, ComesOrGoes(w) PROVE UserExact'
  BY <1>4 DEF ComesOrGoes, AddMember, JoinOk, RemoveMember, Delete
<1>5. ASSUME NEW w \in Workers, Drains(w) PROVE UserExact'
  BY <1>5 DEF Drains, Dequeue, Deliver, DeliverFails
<1>6. ASSUME NEW w \in Workers, Broadcast(w) PROVE UserExact'
  BY <1>6
     DEF Broadcast, BroadcastLock, BroadcastNext, BroadcastPush, BroadcastPost,
         BroadcastUnlock
<1>7. CASE UNCHANGED vars
  BY <1>7 DEF vars
<1> QED
  BY <1>1, <1>2, <1>3, <1>4, <1>5, <1>6, <1>7
     DEF Next, Request, Run, FindOrCreateRoom, Broadcast, MovesOn, Asks,
         ComesOrGoes, Drains

\* Names, rooms and messages are set on the way to the steps that use them.
LEMMA ArgumentsStep == ASSUME Inv, [Next]_vars PROVE ArgumentsThere'
<1>0. /\ pc \in [Workers -> Steps]
       /\ name \in [Workers -> Names \cup {Null}]
       /\ room \in [Workers -> Rooms \cup {Null}]
       /\ m_rooms \in [Names -> Rooms \cup {Null}]
       /\ msg \in [Workers -> Messages \cup {Null}]
       /\ ArgumentsThere
  BY DEF Inv, TypeOK
<1> USE <1>0, NullAssumption DEF ArgumentsThere, Step, Move, FindSteps,
   BroadcastSteps, session, loop
<1>1. ASSUME NEW w \in Workers, MovesOn(w) PROVE ArgumentsThere'
  BY <1>1
     DEF MovesOn, Accept, Disconnect, EndOfInput, LoginFails, ReceiverRefused,
         Quit, Refuse, Reply
<1>2. ASSUME NEW w \in Workers, Asks(w) PROVE ArgumentsThere'
  BY <1>2
     DEF Asks, Login, ReceiverJoins, SenderJoins, SenderLeaves, SendAll,
         Messages
<1>3. ASSUME NEW w \in Workers, FindOrCreateRoom(w) PROVE ArgumentsThere'
  <2>1. CASE FindLock(w) \/ FindMisses(w)
    BY <2>1 DEF FindLock, FindMisses
  <2>2. CASE FindReturns(w)
    BY <2>2 DEF FindReturns, Return
  <2>3. CASE Create(w)
    <3>1. <<name[w], w>> \in Rooms
      BY <2>3 DEF Create, Return, Rooms
    <3> QED
      BY <2>3, <3>1 DEF Create, Return
  <2> QED
    BY <1>3, <2>1, <2>2, <2>3 DEF FindOrCreateRoom
<1>4. ASSUME NEW w \in Workers, ComesOrGoes(w) PROVE ArgumentsThere'
  <2>1. CASE AddMember(w)
    BY <2>1 DEF AddMember
  <2>2. CASE JoinOk(w)
    BY <2>2 DEF JoinOk
  <2>3. CASE RemoveMember(w) \/ Delete(w)
    BY <2>3 DEF RemoveMember, Delete
  <2> QED
    BY <1>4, <2>1, <2>2, <2>3 DEF ComesOrGoes
<1>5. ASSUME NEW w \in Workers, Drains(w) PROVE ArgumentsThere'
  <2>1. CASE Dequeue(w)
    BY <2>1 DEF Dequeue
  <2>2. CASE Deliver(w)
    BY <2>2 DEF Deliver
  <2>3. CASE DeliverFails(w)
    BY <2>3 DEF DeliverFails
  <2> QED
    BY <1>5, <2>1, <2>2, <2>3 DEF Drains
<1>6. ASSUME NEW w \in Workers, Broadcast(w) PROVE ArgumentsThere'
  <2>1. CASE BroadcastLock(w)
    BY <2>1 DEF BroadcastLock
  <2>2. CASE BroadcastPush(w) \/ BroadcastPost(w)
    BY <2>2 DEF BroadcastPush, BroadcastPost
  <2>3. CASE \E u \in Workers : BroadcastNext(w, u)
    BY <2>3 DEF BroadcastNext
  <2>4. CASE BroadcastUnlock(w)
    BY <2>4 DEF BroadcastUnlock
  <2> QED
    BY <1>6, <2>1, <2>2, <2>3, <2>4 DEF Broadcast
<1>7. CASE UNCHANGED vars
  BY <1>7 DEF vars
<1> QED
  BY <1>1, <1>2, <1>3, <1>4, <1>5, <1>6, <1>7
     DEF Next, Request, Run, FindOrCreateRoom, Broadcast, MovesOn, Asks,
         ComesOrGoes, Drains

\* Only the holder of m_lock writes the map, after it missed the name under
\* the same lock.
LEMMA MapStep == ASSUME Inv, [Next]_vars PROVE MapExact'
<1> DEFINE Quiet == /\ UNCHANGED <<m_rooms, m_lock>>
                    /\ \A v \in Workers :
                         /\ pc'[v] \in {"lookup", "create"}
                              <=> pc[v] \in {"lookup", "create"}
                         /\ pc'[v] = "create"
                              => pc[v] = "create" /\ name'[v] = name[v]
<1>0. /\ pc \in [Workers -> Steps]
      /\ name \in [Workers -> Names \cup {Null}]
  BY DEF Inv, TypeOK
<1>1. Quiet => MapExact'
  BY DEF Inv, MapExact, RoomName
<1>2. /\ pc \in [Workers -> Steps]
      /\ name \in [Workers -> Names \cup {Null}]
      /\ m_rooms \in [Names -> Rooms \cup {Null}]
      /\ m_lock \in Workers \cup {Null}
      /\ \A w \in Workers : pc[w] \in FindSteps => name[w] \in Names
      /\ MapExact
  BY DEF Inv, TypeOK, ArgumentsThere
<1>3. ASSUME NEW w \in Workers, MovesOn(w) PROVE MapExact'
  <2>1. Quiet
    BY <1>3, <1>0
       DEF MovesOn, Accept, Disconnect, EndOfInput, LoginFails,
           ReceiverRefused, Quit, Refuse, Reply, Step, Move, session, server
  <2> QED
    BY <2>1, <1>1
<1>4. ASSUME NEW w \in Workers, Asks(w) PROVE MapExact'
  <2>1. Quiet
    BY <1>4, <1>0
       DEF Asks, Login, ReceiverJoins, SenderJoins, SenderLeaves, SendAll,
           Messages, Step, Move, session, server
  <2> QED
    BY <2>1, <1>1
<1>5. ASSUME NEW w \in Workers, FindLock(w)
      PROVE  MapExact'
  BY <1>5, <1>2, NullAssumption
     DEF FindLock, Step, Move, FindSteps, session, server, MapExact, RoomName
<1>6. ASSUME NEW w \in Workers, FindMisses(w)
      PROVE  MapExact'
  BY <1>6, <1>2, NullAssumption
     DEF FindMisses, Step, Move, FindSteps, session, server, MapExact, RoomName
<1>7. ASSUME NEW w \in Workers, FindReturns(w)
      PROVE  MapExact'
  BY <1>7, <1>2, NullAssumption
     DEF FindReturns, Return, Step, Move, FindSteps, session, server, MapExact,
         RoomName
<1>8. ASSUME NEW w \in Workers, Create(w)
      PROVE  MapExact'
  BY <1>8, <1>2, NullAssumption
     DEF Create, Return, Rooms, Step, Move, FindSteps, session, server,
         MapExact, RoomName
<1>9. ASSUME NEW w \in Workers, ComesOrGoes(w) PROVE MapExact'
  <2>1. Quiet
    BY <1>9, <1>0
       DEF ComesOrGoes, AddMember, JoinOk, RemoveMember, Delete, Step, Move,
           session, server
  <2> QED
    BY <2>1, <1>1
<1>10. ASSUME NEW w \in Workers, Drains(w) PROVE MapExact'
  <2>1. Quiet
    BY <1>10, <1>0
       DEF Drains, Dequeue, Deliver, DeliverFails, Step, Move, session, server
  <2> QED
    BY <2>1, <1>1
<1>11. ASSUME NEW w \in Workers, Broadcast(w) PROVE MapExact'
  <2>1. Quiet
    BY <1>11, <1>0
       DEF Broadcast, BroadcastLock, BroadcastNext, BroadcastPush,
           BroadcastPost, BroadcastUnlock, Step, Move, session, server
  <2> QED
    BY <2>1, <1>1
<1>12. CASE UNCHANGED vars
  BY <1>12, <1>1 DEF vars, Step, Move, session, server
<1> QED
  BY <1>3, <1>4, <1>5, <1>6, <1>7, <1>8, <1>9, <1>10, <1>11, <1>12
     DEF Next, Request, Run, FindOrCreateRoom, Broadcast, MovesOn, Asks,
         ComesOrGoes, Drains

\* A worker gets its room from the map, whose entries never change once set.
LEMMA RoomUniqueStep == ASSUME Inv, [Next]_vars PROVE RoomUnique'
<1> DEFINE Quiet == /\ UNCHANGED m_rooms
                    /\ \A v \in Workers : room'[v] \in {room[v], Null}
<1>0. /\ room \in [Workers -> Rooms \cup {Null}]
  BY DEF Inv, TypeOK
<1>1. Quiet => RoomUnique'
  BY DEF Inv, RoomUnique, RoomName
<1>2. /\ name \in [Workers -> Names \cup {Null}]
      /\ room \in [Workers -> Rooms \cup {Null}]
      /\ m_rooms \in [Names -> Rooms \cup {Null}]
      /\ \A w \in Workers : pc[w] \in FindSteps => name[w] \in Names
      /\ MapExact
      /\ RoomUnique
  BY DEF Inv, TypeOK, ArgumentsThere
<1>3. ASSUME NEW w \in Workers, MovesOn(w) PROVE RoomUnique'
  <2>1. Quiet
    BY <1>3, <1>0
       DEF MovesOn, Accept, Disconnect, EndOfInput, LoginFails,
           ReceiverRefused, Quit, Refuse, Reply, Move, server
  <2> QED
    BY <2>1, <1>1
<1>4. ASSUME NEW w \in Workers, Asks(w) PROVE RoomUnique'
  <2>1. Quiet
    BY <1>4, <1>0
       DEF Asks, Login, ReceiverJoins, SenderJoins, SenderLeaves, SendAll,
           Messages, Move, server
  <2> QED
    BY <2>1, <1>1
<1>5. ASSUME NEW w \in Workers,
             \/ FindLock(w)
             \/ FindMisses(w)
      PROVE  RoomUnique'
  <2>1. Quiet
    BY <1>5, <1>0 DEF FindLock, FindMisses, Move, server
  <2> QED
    BY <2>1, <1>1
<1>6. ASSUME NEW w \in Workers, FindReturns(w)
      PROVE  RoomUnique'
  BY <1>6, <1>2, NullAssumption
     DEF FindReturns, Return, Step, FindSteps, server, MapExact, RoomUnique,
         RoomName
<1>7. ASSUME NEW w \in Workers, Create(w)
      PROVE  RoomUnique'
  BY <1>7, <1>2, NullAssumption
     DEF Create, Return, Rooms, Step, FindSteps, server, MapExact, RoomUnique,
         RoomName
<1>8. ASSUME NEW w \in Workers, ComesOrGoes(w) PROVE RoomUnique'
  <2>1. Quiet
    BY <1>8, <1>0
       DEF ComesOrGoes, AddMember, JoinOk, RemoveMember, Delete, Move, server
  <2> QED
    BY <2>1, <1>1
<1>9. ASSUME NEW w \in Workers, Drains(w) PROVE RoomUnique'
  <2>1. Quiet
    BY <1>9, <1>0 DEF Drains, Dequeue, Deliver, DeliverFails, Move, server
  <2> QED
    BY <2>1, <1>1
<1>10. ASSUME NEW w \in Workers, Broadcast(w) PROVE RoomUnique'
  <2>1. Quiet
    BY <1>10, <1>0
       DEF Broadcast, BroadcastLock, BroadcastNext, BroadcastPush,
           BroadcastPost, BroadcastUnlock, Move, server
  <2> QED
    BY <2>1, <1>1
<1>11. CASE UNCHANGED vars
  BY <1>11, <1>1 DEF vars, server
<1> QED
  BY <1>3, <1>4, <1>5, <1>6, <1>7, <1>8, <1>9, <1>10, <1>11
     DEF Next, Request, Run, FindOrCreateRoom, Broadcast, MovesOn, Asks,
         ComesOrGoes, Drains

\* Between add_member and remove_member; between lock and unlock of the room.
Inside(v) == pc[v] \in {"join_ok", "dequeue", "send", "remove"}
InLoop(v) == pc[v] \in {"b_next", "b_push", "b_post"}

\* add_member and remove_member are where a receiver enters and leaves the
\* part of its code in which it counts as a member.
LEMMA MembershipStep == ASSUME Inv, [Next]_vars PROVE MembershipExact'
<1> DEFINE Quiet == /\ UNCHANGED members
                    /\ \A v \in Workers :
                         /\ Inside(v)' <=> Inside(v)
                         /\ Inside(v) => room'[v] = room[v]
<1>0. /\ pc \in [Workers -> Steps]
      /\ room \in [Workers -> Rooms \cup {Null}]
  BY DEF Inv, TypeOK
<1>1. Quiet => MembershipExact'
  BY DEF Inv, MembershipExact, Inside
<1>2. /\ pc \in [Workers -> Steps]
      /\ room \in [Workers -> Rooms \cup {Null}]
      /\ members \in [Rooms -> SUBSET Workers]
      /\ \A w \in Workers : pc[w] \in {"add", "remove"} => room[w] \in Rooms
      /\ MembershipExact
  BY DEF Inv, TypeOK, ArgumentsThere
<1>3. ASSUME NEW w \in Workers, MovesOn(w) PROVE MembershipExact'
  <2>1. Quiet
    BY <1>3, <1>0
       DEF MovesOn, Accept, Disconnect, EndOfInput, LoginFails,
           ReceiverRefused, Quit, Refuse, Reply, Step, Move, roomVars, Inside
  <2> QED
    BY <2>1, <1>1
<1>4. ASSUME NEW w \in Workers, Asks(w) PROVE MembershipExact'
  <2>1. Quiet
    BY <1>4, <1>0
       DEF Asks, Login, ReceiverJoins, SenderJoins, SenderLeaves, SendAll,
           Messages, Step, Move, roomVars, Inside
  <2> QED
    BY <2>1, <1>1
<1>5. ASSUME NEW w \in Workers, FindOrCreateRoom(w) PROVE MembershipExact'
  <2>1. Quiet
    BY <1>5, <1>0
       DEF FindOrCreateRoom, FindLock, FindMisses, FindReturns, Return, Create,
           Rooms, Step, Move, roomVars, Inside
  <2> QED
    BY <2>1, <1>1
<1>6. ASSUME NEW w \in Workers,
             \/ JoinOk(w)
             \/ Delete(w)
      PROVE  MembershipExact'
  <2>1. Quiet
    BY <1>6, <1>0 DEF JoinOk, Delete, Step, Move, roomVars, Inside
  <2> QED
    BY <2>1, <1>1
<1>7. ASSUME NEW w \in Workers, AddMember(w)
      PROVE  MembershipExact'
  BY <1>7, <1>2, NullAssumption DEF AddMember, Step, MembershipExact, roomVars
<1>8. ASSUME NEW w \in Workers, RemoveMember(w)
      PROVE  MembershipExact'
  BY <1>8, <1>2, NullAssumption
     DEF RemoveMember, Step, MembershipExact, roomVars
<1>9. ASSUME NEW w \in Workers, Drains(w) PROVE MembershipExact'
  <2>1. Quiet
    BY <1>9, <1>0
       DEF Drains, Dequeue, Deliver, DeliverFails, Step, Move, roomVars, Inside
  <2> QED
    BY <2>1, <1>1
<1>10. ASSUME NEW w \in Workers, Broadcast(w) PROVE MembershipExact'
  <2>1. Quiet
    BY <1>10, <1>0
       DEF Broadcast, BroadcastLock, BroadcastNext, BroadcastPush,
           BroadcastPost, BroadcastUnlock, Step, Move, roomVars, Inside
  <2> QED
    BY <2>1, <1>1
<1>11. CASE UNCHANGED vars
  BY <1>11, <1>1 DEF vars, Step, Move, roomVars, Inside
<1> QED
  BY <1>3, <1>4, <1>5, <1>6, <1>7, <1>8, <1>9, <1>10, <1>11
     DEF Next, Request, Run, FindOrCreateRoom, Broadcast, MovesOn, Asks,
         ComesOrGoes, Drains

\* A broadcast locks on its way into the loop and unlocks on its way out.
LEMMA RoomLockStep == ASSUME Inv, [Next]_vars PROVE RoomLockExact'
<1> DEFINE Quiet == /\ UNCHANGED lock
                    /\ \A v \in Workers :
                         /\ InLoop(v)' <=> InLoop(v)
                         /\ InLoop(v) => room'[v] = room[v]
<1>0. /\ pc \in [Workers -> Steps]
      /\ room \in [Workers -> Rooms \cup {Null}]
  BY DEF Inv, TypeOK
<1>1. Quiet => RoomLockExact'
  BY DEF Inv, RoomLockExact, InLoop
<1>2. /\ pc \in [Workers -> Steps]
      /\ room \in [Workers -> Rooms \cup {Null}]
      /\ lock \in [Rooms -> Workers \cup {Null}]
      /\ \A w \in Workers : pc[w] \in BroadcastSteps => room[w] \in Rooms
      /\ RoomLockExact
  BY DEF Inv, TypeOK, ArgumentsThere
<1>3. ASSUME NEW w \in Workers, MovesOn(w) PROVE RoomLockExact'
  <2>1. Quiet
    BY <1>3, <1>0
       DEF MovesOn, Accept, Disconnect, EndOfInput, LoginFails,
           ReceiverRefused, Quit, Refuse, Reply, Step, Move, roomVars, InLoop
  <2> QED
    BY <2>1, <1>1
<1>4. ASSUME NEW w \in Workers, Asks(w) PROVE RoomLockExact'
  <2>1. Quiet
    BY <1>4, <1>0
       DEF Asks, Login, ReceiverJoins, SenderJoins, SenderLeaves, SendAll,
           Messages, Step, Move, roomVars, InLoop
  <2> QED
    BY <2>1, <1>1
<1>5. ASSUME NEW w \in Workers, FindOrCreateRoom(w) PROVE RoomLockExact'
  <2>1. Quiet
    BY <1>5, <1>0
       DEF FindOrCreateRoom, FindLock, FindMisses, FindReturns, Return, Create,
           Rooms, Step, Move, roomVars, InLoop
  <2> QED
    BY <2>1, <1>1
<1>6. ASSUME NEW w \in Workers, ComesOrGoes(w) PROVE RoomLockExact'
  <2>1. Quiet
    BY <1>6, <1>0
       DEF ComesOrGoes, AddMember, JoinOk, RemoveMember, Delete, Step, Move,
           roomVars, InLoop
  <2> QED
    BY <2>1, <1>1
<1>7. ASSUME NEW w \in Workers, Drains(w) PROVE RoomLockExact'
  <2>1. Quiet
    BY <1>7, <1>0
       DEF Drains, Dequeue, Deliver, DeliverFails, Step, Move, roomVars, InLoop
  <2> QED
    BY <2>1, <1>1
<1>8. ASSUME NEW w \in Workers,
             \/ \E u \in Workers : BroadcastNext(w, u)
             \/ BroadcastPush(w)
             \/ BroadcastPost(w)
      PROVE  RoomLockExact'
  <2>1. Quiet
    BY <1>8, <1>0
       DEF BroadcastNext, BroadcastPush, BroadcastPost, Step, Move, roomVars,
           InLoop
  <2> QED
    BY <2>1, <1>1
<1>9. ASSUME NEW w \in Workers, BroadcastLock(w)
      PROVE  RoomLockExact'
  BY <1>9, <1>2, NullAssumption
     DEF BroadcastLock, Step, RoomLockExact, roomVars, BroadcastSteps
<1>10. ASSUME NEW w \in Workers, BroadcastUnlock(w)
      PROVE  RoomLockExact'
  BY <1>10, <1>2, NullAssumption
     DEF BroadcastUnlock, Step, RoomLockExact, roomVars, BroadcastSteps
<1>11. CASE UNCHANGED vars
  BY <1>11, <1>1 DEF vars, Step, Move, roomVars, InLoop
<1> QED
  BY <1>3, <1>4, <1>5, <1>6, <1>7, <1>8, <1>9, <1>10, <1>11
     DEF Next, Request, Run, FindOrCreateRoom, Broadcast, MovesOn, Asks,
         ComesOrGoes, Drains

\* A member cannot be removed while the broadcast that picked it holds the
\* lock.
LEMMA CursorStep == ASSUME Inv, [Next]_vars PROVE CursorIsMember'
<1>0. /\ pc \in [Workers -> Steps]
       /\ room \in [Workers -> Rooms \cup {Null}]
       /\ members \in [Rooms -> SUBSET Workers]
       /\ cur \in [Workers -> Workers \cup {Null}]
       /\ ArgumentsThere
       /\ RoomLockExact
       /\ CursorIsMember
  BY DEF Inv, TypeOK
<1> USE <1>0, NullAssumption DEF CursorIsMember, RoomLockExact, ArgumentsThere,
   Step, Move, BroadcastSteps, roomVars, loop
<1>1. ASSUME NEW w \in Workers, MovesOn(w) PROVE CursorIsMember'
  BY <1>1
     DEF MovesOn, Accept, Disconnect, EndOfInput, LoginFails, ReceiverRefused,
         Quit, Refuse, Reply
<1>2. ASSUME NEW w \in Workers, Asks(w) PROVE CursorIsMember'
  BY <1>2
     DEF Asks, Login, ReceiverJoins, SenderJoins, SenderLeaves, SendAll,
         Messages
<1>3. ASSUME NEW w \in Workers, FindOrCreateRoom(w) PROVE CursorIsMember'
  BY <1>3
     DEF FindOrCreateRoom, FindLock, FindMisses, FindReturns, Return, Create,
         Rooms
<1>4. ASSUME NEW w \in Workers,
             \/ AddMember(w)
             \/ JoinOk(w)
             \/ Delete(w)
      PROVE  CursorIsMember'
  BY <1>4 DEF AddMember, JoinOk, Delete
<1>5. ASSUME NEW w \in Workers, RemoveMember(w)
      PROVE  CursorIsMember'
  BY <1>5 DEF RemoveMember
<1>6. ASSUME NEW w \in Workers, Dequeue(w)
      PROVE  CursorIsMember'
  BY <1>6 DEF Dequeue
<1>7. ASSUME NEW w \in Workers, Deliver(w)
      PROVE  CursorIsMember'
  BY <1>7 DEF Deliver
<1>8. ASSUME NEW w \in Workers, DeliverFails(w)
      PROVE  CursorIsMember'
  BY <1>8 DEF DeliverFails
<1>9. ASSUME NEW w \in Workers,
             \/ BroadcastLock(w)
             \/ BroadcastPush(w)
             \/ BroadcastPost(w)
             \/ BroadcastUnlock(w)
      PROVE  CursorIsMember'
  BY <1>9 DEF BroadcastLock, BroadcastPush, BroadcastPost, BroadcastUnlock
<1>10. ASSUME NEW w \in Workers, \E u \in Workers : BroadcastNext(w, u)
      PROVE  CursorIsMember'
  BY <1>10 DEF BroadcastNext
<1>11. CASE UNCHANGED vars
  BY <1>11 DEF vars
<1> QED
  BY <1>1, <1>2, <1>3, <1>4, <1>5, <1>6, <1>7, <1>8, <1>9, <1>10, <1>11
     DEF Next, Request, Run, FindOrCreateRoom, Broadcast, MovesOn, Asks,
         ComesOrGoes, Drains

------------------------------------------------------------------------------
(* The semaphores *)

\* Push and post, wait and pop change the two sides of AvailExact alike; when a
\* queue is destroyed no broadcast is about to post its semaphore.
LEMMA AvailStep == ASSUME Inv, [Next]_vars PROVE AvailExact'
<1> DEFINE Quiet == /\ UNCHANGED <<queue, avail>>
                    /\ \A v \in Workers : Posting(v)' = Posting(v)
<1>0. /\ pc \in [Workers -> Steps]
      /\ cur \in [Workers -> Workers \cup {Null}]
      /\ queue \in [Workers -> Seq(Messages)]
      /\ avail \in [Workers -> Nat]
      /\ AvailExact
  BY DEF Inv, TypeOK
<1>1. Quiet => AvailExact'
  BY <1>0 DEF AvailExact
<1>2. \A v \in Workers :
        Len(queue[v]) \in Nat /\ Cardinality(Posting(v)) \in Nat
  BY <1>0, PostingFinite, LenProperties
<1>3. ASSUME NEW w \in Workers, MovesOn(w) PROVE AvailExact'
  <2>1. Quiet
    BY <1>3, <1>0
       DEF MovesOn, Accept, Disconnect, EndOfInput, LoginFails,
           ReceiverRefused, Quit, Refuse, Reply, Step, Move, loop, stream,
           Posting
  <2> QED
    BY <2>1, <1>1
<1>4. ASSUME NEW w \in Workers, Asks(w) PROVE AvailExact'
  <2>1. Quiet
    BY <1>4, <1>0
       DEF Asks, Login, ReceiverJoins, SenderJoins, SenderLeaves, SendAll,
           Step, Move, loop, stream, Posting
  <2> QED
    BY <2>1, <1>1
<1>5. ASSUME NEW w \in Workers, FindOrCreateRoom(w) PROVE AvailExact'
  <2>1. Quiet
    BY <1>5, <1>0
       DEF FindOrCreateRoom, FindLock, FindMisses, FindReturns, Create, Return,
           Step, Move, loop, stream, Posting
  <2> QED
    BY <2>1, <1>1
<1>6. ASSUME NEW w \in Workers,
             \/ AddMember(w) \/ JoinOk(w) \/ Deliver(w) \/ DeliverFails(w)
             \/ RemoveMember(w)
      PROVE  AvailExact'
  <2>1. Quiet
    BY <1>6, <1>0
       DEF AddMember, JoinOk, Deliver, DeliverFails, RemoveMember, Step, Move,
           loop, stream, Posting
  <2> QED
    BY <2>1, <1>1
<1>7. ASSUME NEW w \in Workers, Dequeue(w) PROVE AvailExact'
  <2>1. queue[w] # <<>>
    BY <1>7, AvailFindsMessage DEF Dequeue, Inv
  <2>2. Len(Tail(queue[w])) = Len(queue[w]) - 1
    BY <1>0, <2>1, HeadTailProperties
  <2>3. \A v \in Workers : Posting(v)' = Posting(v)
    BY <1>7, <1>0 DEF Dequeue, Step, Move, loop, Posting
  <2>4. /\ queue' = [queue EXCEPT ![w] = Tail(queue[w])]
        /\ avail' = [avail EXCEPT ![w] = avail[w] - 1]
    BY <1>7 DEF Dequeue
  <2>5. Len(queue'[w]) = avail'[w] + Cardinality(Posting(w)')
    BY <1>0, <1>2, <2>2, <2>3, <2>4, <1>7 DEF AvailExact, Dequeue
  <2>6. \A v \in Workers \ {w} : queue'[v] = queue[v] /\ avail'[v] = avail[v]
    BY <1>0, <2>4
  <2> QED
    BY <1>0, <2>3, <2>5, <2>6 DEF AvailExact
<1>8. ASSUME NEW w \in Workers, Delete(w) PROVE AvailExact'
  <2>1. /\ queue' = [queue EXCEPT ![w] = <<>>]
        /\ avail' = [avail EXCEPT ![w] = 0]
    BY <1>8 DEF Delete
  <2>2. \A v \in Workers : Posting(v)' = Posting(v)
    BY <1>8, <1>0 DEF Delete, Step, Move, loop, Posting
  <2>3. ASSUME NEW v \in Workers, v = w
        PROVE  Len(queue'[v]) = avail'[v] + Cardinality(Posting(v)')
    <3>1. Posting(v) = {}
      BY <1>8, <2>3, CursorRuns DEF Delete, Step, Move, Posting
    <3>2. Cardinality(Posting(v)') = 0
      BY <2>2, <3>1, FS_EmptySet
    <3>3. queue'[v] = <<>> /\ avail'[v] = 0 /\ Len(<<>>) = 0
      BY <1>0, <2>1, <2>3
    <3> QED
      BY <3>2, <3>3
  <2>4. ASSUME NEW v \in Workers, v # w
        PROVE  Len(queue'[v]) = avail'[v] + Cardinality(Posting(v)')
    BY <1>0, <2>1, <2>2, <2>4 DEF AvailExact
  <2> QED
    BY <2>3, <2>4 DEF AvailExact
<1>9. ASSUME NEW w \in Workers,
             \/ BroadcastLock(w) \/ BroadcastUnlock(w)
             \/ \E u \in Workers : BroadcastNext(w, u)
      PROVE  AvailExact'
  <2>1. Quiet
    BY <1>9, <1>0
       DEF BroadcastLock, BroadcastUnlock, BroadcastNext, Step, Move, loop,
           stream, Posting
  <2> QED
    BY <2>1, <1>1
<1>10. ASSUME NEW w \in Workers, BroadcastPush(w) PROVE AvailExact'
  <2>1. cur[w] \in Workers /\ msg[w] \in Messages
    BY <1>10, CursorRuns
       DEF BroadcastPush, Step, Move, Inv, ArgumentsThere, BroadcastSteps
  <2>2. /\ queue' = [queue EXCEPT ![cur[w]] = Append(queue[cur[w]], msg[w])]
        /\ avail' = avail
    BY <1>10 DEF BroadcastPush
  <2>3. ASSUME NEW v \in Workers, v = cur[w]
        PROVE  Len(queue'[v]) = avail'[v] + Cardinality(Posting(v)')
    <3>1. w \notin Posting(v) /\ Posting(v)' = Posting(v) \cup {w}
      BY <1>10, <2>3, <1>0 DEF BroadcastPush, Step, Move, loop, Posting
    <3>2. Cardinality(Posting(v)') = Cardinality(Posting(v)) + 1
      BY <3>1, PostingFinite, FS_AddElement
    <3>3. queue'[v] = Append(queue[v], msg[w]) /\ avail'[v] = avail[v]
      BY <1>0, <2>2, <2>3
    <3>4. Len(queue'[v]) = Len(queue[v]) + 1
      BY <1>0, <2>1, <3>3, AppendProperties
    <3> QED
      BY <1>0, <1>2, <3>2, <3>3, <3>4 DEF AvailExact
  <2>4. ASSUME NEW v \in Workers, v # cur[w]
        PROVE  Len(queue'[v]) = avail'[v] + Cardinality(Posting(v)')
    <3>1. Posting(v)' = Posting(v)
      BY <1>10, <2>4, <1>0 DEF BroadcastPush, Step, Move, loop, Posting
    <3> QED
      BY <1>0, <2>2, <2>4, <3>1 DEF AvailExact
  <2> QED
    BY <2>3, <2>4 DEF AvailExact
<1>11. ASSUME NEW w \in Workers, BroadcastPost(w) PROVE AvailExact'
  <2>1. /\ queue' = queue
        /\ avail' = [avail EXCEPT ![cur[w]] = avail[cur[w]] + 1]
    BY <1>11 DEF BroadcastPost
  <2>2. ASSUME NEW v \in Workers, v = cur[w]
        PROVE  Len(queue'[v]) = avail'[v] + Cardinality(Posting(v)')
    <3>1. w \in Posting(v) /\ Posting(v)' = Posting(v) \ {w}
      BY <1>11, <2>2, <1>0 DEF BroadcastPost, Step, Move, loop, Posting
    <3>2. Cardinality(Posting(v)') = Cardinality(Posting(v)) - 1
      BY <3>1, PostingFinite, FS_RemoveElement
    <3>3. queue'[v] = queue[v] /\ avail'[v] = avail[v] + 1
      BY <1>0, <2>1, <2>2
    <3> QED
      BY <1>0, <1>2, <3>2, <3>3 DEF AvailExact
  <2>3. ASSUME NEW v \in Workers, v # cur[w]
        PROVE  Len(queue'[v]) = avail'[v] + Cardinality(Posting(v)')
    <3>1. Posting(v)' = Posting(v)
      BY <1>11, <2>3, <1>0 DEF BroadcastPost, Step, Move, loop, Posting
    <3> QED
      BY <1>0, <2>1, <2>3, <3>1 DEF AvailExact
  <2> QED
    BY <2>2, <2>3 DEF AvailExact
<1>12. CASE UNCHANGED vars
  BY <1>12, <1>1 DEF vars, loop, stream, Posting
<1> QED
  BY <1>3, <1>4, <1>5, <1>6, <1>7, <1>8, <1>9, <1>10, <1>11, <1>12
     DEF Next, Request, Run, Broadcast, MovesOn, Asks, ComesOrGoes

------------------------------------------------------------------------------
(* The theorems *)

\* Inv holds initially.
LEMMA InvInit == Init => Inv
<1> SUFFICES ASSUME Init PROVE Inv
  OBVIOUS
<1>1. TypeOK
  BY TypeInit
<1>2. UserExact /\ ArgumentsThere /\ CursorIsMember
  BY DEF Init, UserExact, ArgumentsThere, CursorIsMember, FindSteps,
         BroadcastSteps
<1>3. MapExact /\ RoomUnique
  BY NullAssumption DEF Init, MapExact, RoomUnique
<1>4. MembershipExact /\ RoomLockExact
  BY NullAssumption DEF Init, MembershipExact, RoomLockExact
<1>5. AvailExact
  <2>1. \A w \in Workers : Posting(w) = {}
    BY DEF Init, Posting
  <2>2. \A w \in Workers : Cardinality(Posting(w)) = 0
    BY <2>1, FS_EmptySet
  <2>3. Len(<<>>) = 0
    OBVIOUS
  <2> QED
    BY <2>2, <2>3 DEF Init, AvailExact
<1> QED
  BY <1>1, <1>2, <1>3, <1>4, <1>5 DEF Inv

\* Every step keeps all of it.
LEMMA InvStep == ASSUME Inv, [Next]_vars PROVE Inv'
BY TypeStep, UserStep, ArgumentsStep, MapStep, RoomUniqueStep, MembershipStep,
   RoomLockStep, CursorStep, AvailStep
   DEF Inv

\* Inv holds in every state the workers and the clients can bring about.
THEOREM Invariance == Spec => []Inv
BY InvInit, InvStep, PTL DEF Spec

\* The variables keep their types; no semaphore is decremented below zero.
THEOREM TypeCorrect == Spec => []TypeOK
BY Invariance, PTL DEF Inv

\* Clients that named the same room share one Room object.
THEOREM RoomsAreUnique == Spec => []RoomUnique
BY Invariance, PTL DEF Inv

\* A User is in its room from add_member to remove_member, and in no other.
THEOREM MembershipCorrect == Spec => []MembershipExact
BY Invariance, PTL DEF Inv

\* A room is locked exactly while one worker is in its broadcast loop.
THEOREM RoomLockCorrect == Spec => []RoomLockExact
BY Invariance, PTL DEF Inv

\* A semaphore counts the messages of its queue, but for posts to come.
THEOREM SemaphoresCorrect == Spec => []AvailExact
BY Invariance, PTL DEF Inv

\* No broadcast touches the queue of a User that was deleted.
THEOREM BroadcastsAreSafe == Spec => []NoUseAfterFree
BY Invariance, InvNoUseAfterFree, PTL

------------------------------------------------------------------------------
(* What reaches the receivers *)

\* Exactly one message is in hand between dequeue and send, else none.
HandExact ==
  \A w \in Workers : IF pc[w] = "send"
                      THEN \E m \in Messages : hand[w] = <<m>>
                      ELSE hand[w] = <<>>

\* Nothing is queued for or written to a client that has not joined.
Untouched ==
  \A w \in Workers :
    pc[w] \notin {"join_ok", "dequeue", "send", "remove", "free", "done"}
      => wire[w] = <<>> /\ queue[w] = <<>>

\* What a broadcast sends is the last message of the log of its room, and the
\* member it is at is one it has visited.
LoopExact ==
  \A b \in Workers :
    /\ InLoop(b) => /\ log[room[b]] # <<>>
                    /\ log[room[b]][Len(log[room[b]])] = msg[b]
    /\ ~InLoop(b) => visited[b] = {}
    /\ pc[b] \in {"b_push", "b_post"} => cur[b] \in visited[b]

\* A member joined before the broadcast that is under way began.
JoinedInLog ==
  \A o \in Rooms : \A w \in members[o] : joined[w] <= Handed(w, o)

\* Nothing was broadcast to a Room object that the map does not have.
UnusedEmpty ==
  \A o \in Rooms : m_rooms[RoomName(o)] # o => log[o] = <<>>

StreamInv == /\ Inv /\ HandExact /\ Untouched /\ LoopExact /\ UnusedEmpty
             /\ JoinedInLog /\ StreamExact

------------------------------------------------------------------------------
(* Sequences of messages *)

\* Writing the message in hand, or taking one from an empty hand, only moves
\* messages along a stream.
LEMMA Moved ==
  ASSUME NEW S, NEW s \in Seq(S), NEW t \in Seq(S), NEW u \in Seq(S)
  PROVE  /\ (s \o t) \o <<>> \o u = s \o t \o u
         /\ u # <<>> => s \o <<Head(u)>> \o Tail(u) = s \o <<>> \o u
<1>1. (s \o t) \o <<>> = s \o t /\ s \o <<>> = s
  BY ConcatProperties, ConcatEmptySeq
<1>2. ASSUME u # <<>> PROVE s \o <<Head(u)>> \o Tail(u) = s \o u
  <2>1. Head(u) \in S /\ Tail(u) \in Seq(S) /\ <<Head(u)>> \o Tail(u) = u
    BY <1>2
  <2>2. <<Head(u)>> \in Seq(S)
    BY <2>1
  <2> QED
    BY <2>1, <2>2, ConcatAssociative
<1> QED
  BY <1>1, <1>2

\* A message queued is a message at the end of the stream.
LEMMA MovedIn ==
  ASSUME NEW S, NEW s \in Seq(S), NEW u \in Seq(S), NEW m \in S
  PROVE  s \o Append(u, m) = Append(s \o u, m)
<1>1. s \o u \in Seq(S) /\ <<m>> \in Seq(S)
  BY ConcatProperties
<1> QED
  BY <1>1, AppendIsConcat, ConcatAssociative

\* What a stream of an earlier part of a log says of a longer log.
LEMMA LogGrows ==
  ASSUME NEW S, NEW l \in Seq(S), NEW m \in S, NEW i \in 1 .. Len(l) + 1
  PROVE  SubSeq(Append(l, m), i, Len(l)) = SubSeq(l, i, Len(l))
BY SubSeqProperties, AppendProperties

\* A stream that was one message behind the log catches up.
LEMMA CatchesUp ==
  ASSUME NEW S, NEW l \in Seq(S), NEW i \in 1 .. Len(l), l # <<>>
  PROVE  Append(SubSeq(l, i, Len(l) - 1), l[Len(l)]) = SubSeq(l, i, Len(l))
BY SubSeqProperties, AppendProperties

\* A stream has the length and the messages of its part of the log.
LEMMA PartOfLog ==
  ASSUME NEW S, NEW l \in Seq(S), NEW j \in Nat, NEW k \in Nat, j <= k,
         k <= Len(l)
  PROVE  /\ Len(SubSeq(l, j + 1, k)) = k - j
         /\ \A i \in 1 .. k - j : SubSeq(l, j + 1, k)[i] = l[j + i]
OBVIOUS

\* The message in hand is the one of the log at the end of what was written.
LEMMA NextOfLog ==
  ASSUME NEW S, NEW l \in Seq(S), NEW s \in Seq(S), NEW m \in S,
         NEW u \in Seq(S), NEW j \in Nat, NEW k \in Nat, j <= k, k <= Len(l),
         s \o <<m>> \o u = SubSeq(l, j + 1, k)
  PROVE  j + Len(s) + 1 <= k /\ m = l[j + Len(s) + 1]
<1> DEFINE a == Append(s, m)
<1>1. a = s \o <<m>>
  BY AppendIsConcat
<1>2. a \in Seq(S) /\ Len(a) = Len(s) + 1 /\ a[Len(s) + 1] = m
  BY AppendProperties
<1> HIDE DEF a
<1>3. Len(s) \in Nat /\ Len(u) \in Nat /\ Len(l) \in Nat
  BY LenProperties
<1>4. /\ Len(SubSeq(l, j + 1, k)) = k - j
      /\ \A i \in 1 .. k - j : SubSeq(l, j + 1, k)[i] = l[j + i]
  BY PartOfLog
<1>5. Len(a \o u) = Len(s) + 1 + Len(u) /\ (a \o u)[Len(s) + 1] = m
  <2>1. /\ Len(a \o u) = Len(a) + Len(u)
        /\ \A i \in 1 .. Len(a) + Len(u) :
             (a \o u)[i] = IF i <= Len(a) THEN a[i] ELSE u[i - Len(a)]
    BY <1>2, ConcatProperties, Zenon
  <2>2. Len(s) + 1 \in 1 .. Len(a) + Len(u) /\ Len(s) + 1 <= Len(a)
    BY <1>2, <1>3
  <2> QED
    BY <1>2, <2>1, <2>2
<1>6. Len(s) + 1 <= k - j
  BY <1>1, <1>3, <1>4, <1>5
<1>7. m = l[j + (Len(s) + 1)]
  BY <1>1, <1>3, <1>4, <1>5, <1>6
<1> QED
  BY <1>1, <1>3, <1>6, <1>7 DEF a

------------------------------------------------------------------------------
(* What a stream rests on *)

\* dequeue puts one message in an empty hand, and send empties it.
LEMMA HandStep == ASSUME StreamInv, [Next]_vars PROVE HandExact'
<1>0. /\ pc \in [Workers -> Steps]
      /\ hand \in [Workers -> Seq(Messages)]
      /\ HandExact
  BY DEF StreamInv, Inv, TypeOK
<1>1. ASSUME NEW w \in Workers, MovesOn(w) PROVE HandExact'
  BY <1>1, <1>0
     DEF MovesOn, Accept, Disconnect, EndOfInput, LoginFails, ReceiverRefused,
         Quit, Refuse, Reply, Step, Move, stream, HandExact
<1>2. ASSUME NEW w \in Workers, Asks(w) PROVE HandExact'
  BY <1>2, <1>0
     DEF Asks, Login, ReceiverJoins, SenderJoins, SenderLeaves, SendAll, Step,
         Move, stream, HandExact
<1>3. ASSUME NEW w \in Workers, FindOrCreateRoom(w) PROVE HandExact'
  BY <1>3, <1>0
     DEF FindOrCreateRoom, FindLock, FindMisses, FindReturns, Return, Create,
         Step, Move, stream, HandExact
<1>4. ASSUME NEW w \in Workers, ComesOrGoes(w) PROVE HandExact'
  BY <1>4, <1>0
     DEF ComesOrGoes, AddMember, JoinOk, RemoveMember, Delete, Step, Move,
         stream, HandExact
<1>5. ASSUME NEW w \in Workers, Dequeue(w) PROVE HandExact'
  <2>1. queue[w] # <<>> /\ queue[w] \in Seq(Messages)
    BY <1>5, AvailFindsMessage DEF Dequeue, StreamInv, Inv, TypeOK
  <2>2. Head(queue[w]) \in Messages
    BY <2>1, HeadTailProperties
  <2> QED
    BY <1>5, <1>0, <2>2 DEF Dequeue, Step, HandExact
<1>6. ASSUME NEW w \in Workers, Deliver(w) \/ DeliverFails(w) PROVE HandExact'
  BY <1>6, <1>0 DEF Deliver, DeliverFails, Step, HandExact
<1>7. ASSUME NEW w \in Workers, Broadcast(w) PROVE HandExact'
  BY <1>7, <1>0
     DEF Broadcast, BroadcastLock, BroadcastNext, BroadcastPush, BroadcastPost,
         BroadcastUnlock, Step, Move, stream, HandExact
<1>8. CASE UNCHANGED vars
  BY <1>8, <1>0 DEF vars, Step, Move, stream, HandExact
<1> QED
  BY <1>1, <1>2, <1>3, <1>4, <1>5, <1>6, <1>7, <1>8
     DEF Next, Request, Run, FindOrCreateRoom, Broadcast, MovesOn, Asks,
         ComesOrGoes, Drains

\* A broadcast queues a message only for members, and only members are written
\* to.
LEMMA UntouchedStep == ASSUME StreamInv, [Next]_vars PROVE Untouched'
<1>0. /\ pc \in [Workers -> Steps]
      /\ wire \in [Workers -> Seq(Messages)]
      /\ queue \in [Workers -> Seq(Messages)]
      /\ Untouched
  BY DEF StreamInv, Inv, TypeOK
<1>1. ASSUME NEW w \in Workers, MovesOn(w) PROVE Untouched'
  BY <1>1, <1>0
     DEF MovesOn, Accept, Disconnect, EndOfInput, LoginFails, ReceiverRefused,
         Quit, Refuse, Reply, Step, Move, stream, Untouched
<1>2. ASSUME NEW w \in Workers, Asks(w) PROVE Untouched'
  BY <1>2, <1>0
     DEF Asks, Login, ReceiverJoins, SenderJoins, SenderLeaves, SendAll, Step,
         Move, stream, Untouched
<1>3. ASSUME NEW w \in Workers, FindOrCreateRoom(w) PROVE Untouched'
  BY <1>3, <1>0
     DEF FindOrCreateRoom, FindLock, FindMisses, FindReturns, Return, Create,
         Step, Move, stream, Untouched
<1>4. ASSUME NEW w \in Workers, ComesOrGoes(w) PROVE Untouched'
  BY <1>4, <1>0
     DEF ComesOrGoes, AddMember, JoinOk, RemoveMember, Delete, Step, Move,
         stream, Untouched
<1>5. ASSUME NEW w \in Workers, Drains(w) PROVE Untouched'
  BY <1>5, <1>0
     DEF Drains, Dequeue, Deliver, DeliverFails, Step, Move, stream, Untouched
<1>6. ASSUME NEW w \in Workers, BroadcastPush(w) PROVE Untouched'
  <2>1. pc[cur[w]] \in {"join_ok", "dequeue", "send", "remove"} /\ cur[w] # w
    BY <1>6, CursorRuns DEF BroadcastPush, Step, StreamInv
  <2>2. \A v \in Workers : /\ wire'[v] = wire[v]
                           /\ v # cur[w] => queue'[v] = queue[v]
                           /\ v # w => pc'[v] = pc[v]
    BY <1>6, <1>0 DEF BroadcastPush, Step
  <2>3. pc[w] = "b_push"
    BY <1>6 DEF BroadcastPush, Step
  <2>4. ASSUME NEW v \in Workers,
               pc'[v] \notin {"join_ok", "dequeue", "send", "remove", "free",
                              "done"}
        PROVE  wire'[v] = <<>> /\ queue'[v] = <<>>
    <3>1. v # cur[w]
      BY <2>1, <2>2, <2>4
    <3>2. pc[v] \notin {"join_ok", "dequeue", "send", "remove", "free", "done"}
      BY <2>2, <2>3, <2>4
    <3> QED
      BY <1>0, <2>2, <3>1, <3>2 DEF Untouched
  <2> QED
    BY <2>4 DEF Untouched
<1>7. ASSUME NEW w \in Workers,
             \/ BroadcastLock(w) \/ BroadcastUnlock(w) \/ BroadcastPost(w)
             \/ \E u \in Workers : BroadcastNext(w, u)
      PROVE  Untouched'
  BY <1>7, <1>0
     DEF BroadcastLock, BroadcastNext, BroadcastPost, BroadcastUnlock, Step,
         stream, Untouched
<1>8. CASE UNCHANGED vars
  BY <1>8, <1>0 DEF vars, Step, Move, stream, Untouched
<1> QED
  BY <1>1, <1>2, <1>3, <1>4, <1>5, <1>6, <1>7, <1>8
     DEF Next, Request, Run, FindOrCreateRoom, Broadcast, MovesOn, Asks,
         ComesOrGoes, Drains

\* Nobody else appends to the log of a room while a broadcast holds its lock.
LEMMA LoopStep == ASSUME StreamInv, [Next]_vars PROVE LoopExact'
<1>0. /\ pc \in [Workers -> Steps]
      /\ room \in [Workers -> Rooms \cup {Null}]
      /\ log \in [Rooms -> Seq(Messages)]
      /\ visited \in [Workers -> SUBSET Workers]
      /\ cur \in [Workers -> Workers \cup {Null}]
      /\ msg \in [Workers -> Messages \cup {Null}]
      /\ \A b \in Workers : InLoop(b) => room[b] \in Rooms
      /\ LoopExact
  BY DEF StreamInv, Inv, TypeOK, ArgumentsThere, BroadcastSteps, InLoop
<1>1. ASSUME NEW w \in Workers, MovesOn(w) PROVE LoopExact'
  BY <1>1, <1>0
     DEF MovesOn, Accept, Disconnect, EndOfInput, LoginFails, ReceiverRefused,
         Quit, Refuse, Reply, Step, Move, roomVars, loop, LoopExact, InLoop
<1>2. ASSUME NEW w \in Workers, Asks(w) PROVE LoopExact'
  BY <1>2, <1>0
     DEF Asks, Login, ReceiverJoins, SenderJoins, SenderLeaves, SendAll, Step,
         Move, roomVars, loop, LoopExact, InLoop
<1>3. ASSUME NEW w \in Workers, FindOrCreateRoom(w) PROVE LoopExact'
  <2>1. /\ UNCHANGED <<log, msg, visited, cur>>
        /\ \A b \in Workers : /\ InLoop(b)' <=> InLoop(b)
                              /\ InLoop(b) => room'[b] = room[b]
                              /\ pc'[b] \in {"b_push", "b_post"}
                                   => pc[b] = pc'[b]
    BY <1>3, <1>0
       DEF FindOrCreateRoom, FindLock, FindMisses, FindReturns, Return, Create,
           Step, Move, roomVars, loop, InLoop
  <2> QED
    BY <1>0, <2>1 DEF LoopExact
<1>4. ASSUME NEW w \in Workers, ComesOrGoes(w) PROVE LoopExact'
  BY <1>4, <1>0
     DEF ComesOrGoes, AddMember, JoinOk, RemoveMember, Delete, Step, Move,
         roomVars, loop, LoopExact, InLoop
<1>5. ASSUME NEW w \in Workers, Drains(w) PROVE LoopExact'
  <2>1. /\ UNCHANGED <<room, log, msg, visited, cur>>
        /\ pc' \in {[pc EXCEPT ![w] = to] : to \in {"send", "dequeue", "remove"}}
        /\ pc[w] \in {"send", "dequeue"}
    BY <1>5
       DEF Drains, Dequeue, Deliver, DeliverFails, Step, roomVars, loop
  <2>2. \A b \in Workers : /\ InLoop(b)' <=> InLoop(b)
                           /\ pc'[b] \in {"b_push", "b_post"} => pc[b] = pc'[b]
    BY <1>0, <2>1 DEF InLoop
  <2> QED
    BY <1>0, <2>1, <2>2 DEF LoopExact
<1>6. ASSUME NEW w \in Workers, BroadcastLock(w) PROVE LoopExact'
  <2> DEFINE o == room[w]
  <2>1. o \in Rooms /\ msg[w] \in Messages
    BY <1>6
       DEF BroadcastLock, Step, StreamInv, Inv, ArgumentsThere, BroadcastSteps
  <2>2. \A b \in Workers : InLoop(b) => room[b] # o
    BY <1>6, <2>1, NullAssumption
       DEF BroadcastLock, StreamInv, Inv, RoomLockExact, InLoop
  <2>3. /\ log'[o] = Append(log[o], msg[w])
        /\ \A x \in Rooms : x # o => log'[x] = log[x]
    BY <1>6, <1>0, <2>1 DEF BroadcastLock
  <2>4. /\ log'[o] # <<>>
        /\ log'[o][Len(log'[o])] = msg[w]
    BY <1>0, <2>1, <2>3, AppendProperties
  <2>5. /\ pc[w] = "b_lock" /\ pc' = [pc EXCEPT ![w] = "b_next"]
        /\ UNCHANGED <<room, msg, visited, cur>>
    BY <1>6 DEF BroadcastLock, Step, loop
  <2>6. /\ InLoop(w)' /\ ~InLoop(w)
        /\ \A b \in Workers :
             b # w => (InLoop(b)' <=> InLoop(b)) /\ pc'[b] = pc[b]
    BY <1>0, <2>5 DEF InLoop
  <2>7. ASSUME NEW b \in Workers, InLoop(b)'
        PROVE  /\ log'[room[b]] # <<>>
               /\ log'[room[b]][Len(log'[room[b]])] = msg[b]
    <3>1. CASE b = w
      BY <3>1, <2>4
    <3>2. CASE b # w
      <4>1. InLoop(b) /\ room[b] \in Rooms /\ room[b] # o
        BY <3>2, <2>6, <2>7, <2>2, <1>0
      <4> QED
        BY <4>1, <2>3, <1>0 DEF LoopExact
    <3> QED
      BY <3>1, <3>2
  <2>8. \A b \in Workers : ~InLoop(b)' => visited'[b] = {}
    BY <1>0, <2>5, <2>6 DEF LoopExact
  <2>9. \A b \in Workers :
          pc'[b] \in {"b_push", "b_post"} => cur'[b] \in visited'[b]
    BY <1>0, <2>5 DEF LoopExact
  <2> QED
    BY <2>5, <2>7, <2>8, <2>9 DEF LoopExact
<1>7. ASSUME NEW w \in Workers,
             \/ BroadcastPush(w) \/ BroadcastUnlock(w) \/ BroadcastPost(w)
             \/ \E u \in Workers : BroadcastNext(w, u)
      PROVE  LoopExact'
  BY <1>7, <1>0
     DEF BroadcastPush, BroadcastNext, BroadcastPost, BroadcastUnlock, Step,
         roomVars, loop, LoopExact, InLoop
<1>8. CASE UNCHANGED vars
  BY <1>8, <1>0 DEF vars, Step, Move, roomVars, loop, LoopExact, InLoop
<1> QED
  BY <1>1, <1>2, <1>3, <1>4, <1>5, <1>6, <1>7, <1>8
     DEF Next, Request, Run, FindOrCreateRoom, Broadcast, MovesOn, Asks,
         ComesOrGoes, Drains

\* A broadcast is to a room that the map has; an entry of the map never changes.
LEMMA UnusedStep == ASSUME StreamInv, [Next]_vars PROVE UnusedEmpty'
<1>0. /\ pc \in [Workers -> Steps]
      /\ room \in [Workers -> Rooms \cup {Null}]
      /\ name \in [Workers -> Names \cup {Null}]
      /\ log \in [Rooms -> Seq(Messages)]
      /\ m_rooms \in [Names -> Rooms \cup {Null}]
      /\ \A w \in Workers : pc[w] \in FindSteps => name[w] \in Names
      /\ \A w \in Workers : pc[w] = "create" => m_rooms[name[w]] = Null
      /\ UnusedEmpty
  BY DEF StreamInv, Inv, TypeOK, ArgumentsThere, MapExact
<1>1. ASSUME NEW w \in Workers, MovesOn(w) PROVE UnusedEmpty'
  BY <1>1, <1>0
     DEF MovesOn, Accept, Disconnect, EndOfInput, LoginFails, ReceiverRefused,
         Quit, Refuse, Reply, Step, Move, server, roomVars, UnusedEmpty,
         RoomName, Rooms
<1>2. ASSUME NEW w \in Workers, Asks(w) PROVE UnusedEmpty'
  BY <1>2, <1>0
     DEF Asks, Login, ReceiverJoins, SenderJoins, SenderLeaves, SendAll, Step,
         Move, server, roomVars, UnusedEmpty, RoomName, Rooms
<1>3. ASSUME NEW w \in Workers,
             FindLock(w) \/ FindMisses(w) \/ FindReturns(w)
      PROVE  UnusedEmpty'
  BY <1>3, <1>0
     DEF FindLock, FindMisses, FindReturns, Return, Move, server, roomVars,
         UnusedEmpty, RoomName
<1>4. ASSUME NEW w \in Workers, Create(w) PROVE UnusedEmpty'
  <2>1. /\ log' = log /\ name[w] \in Names /\ m_rooms[name[w]] = Null
        /\ \A n \in Names : n # name[w] => m_rooms'[n] = m_rooms[n]
    BY <1>4, <1>0 DEF Create, Return, Step, roomVars, FindSteps
  <2>2. ASSUME NEW o \in Rooms, m_rooms'[RoomName(o)] # o PROVE log[o] = <<>>
    <3>1. RoomName(o) \in Names /\ o # Null
      BY NullAssumption DEF Rooms, RoomName
    <3> QED
      BY <1>0, <2>1, <2>2, <3>1 DEF UnusedEmpty
  <2> QED
    BY <2>1, <2>2 DEF UnusedEmpty, RoomName
<1>5. ASSUME NEW w \in Workers, ComesOrGoes(w) PROVE UnusedEmpty'
  BY <1>5, <1>0
     DEF ComesOrGoes, AddMember, JoinOk, RemoveMember, Delete, Step, Move,
         server, roomVars, UnusedEmpty, RoomName, Rooms
<1>6. ASSUME NEW w \in Workers, Drains(w) PROVE UnusedEmpty'
  BY <1>6, <1>0
     DEF Drains, Dequeue, Deliver, DeliverFails, Step, Move, server, roomVars,
         UnusedEmpty, RoomName, Rooms
<1>7. ASSUME NEW w \in Workers, BroadcastLock(w) PROVE UnusedEmpty'
  <2>1. room[w] \in Rooms /\ m_rooms[RoomName(room[w])] = room[w]
    BY <1>7, NullAssumption
       DEF BroadcastLock, Step, StreamInv, Inv, ArgumentsThere, BroadcastSteps,
           RoomUnique
  <2> QED
    BY <1>7, <1>0, <2>1 DEF BroadcastLock, server, UnusedEmpty, RoomName
<1>8. ASSUME NEW w \in Workers,
             \/ BroadcastPush(w) \/ BroadcastUnlock(w) \/ BroadcastPost(w)
             \/ \E u \in Workers : BroadcastNext(w, u)
      PROVE  UnusedEmpty'
  BY <1>8, <1>0
     DEF BroadcastPush, BroadcastNext, BroadcastPost, BroadcastUnlock, Step,
         roomVars, server, UnusedEmpty, RoomName
<1>9. CASE UNCHANGED vars
  BY <1>9, <1>0
     DEF vars, Step, Move, server, roomVars, UnusedEmpty, RoomName, Rooms
<1> QED
  BY <1>1, <1>2, <1>3, <1>4, <1>5, <1>6, <1>7, <1>8, <1>9
     DEF Next, Request, Run, FindOrCreateRoom, Broadcast, MovesOn, Asks,
         ComesOrGoes, Drains

------------------------------------------------------------------------------
(* The streams *)

StreamOf(v) == wire[v] \o hand[v] \o queue[v]

\* What JoinedInLog and StreamExact say of one member.
InStep(v, o) ==
  /\ joined[v] <= Handed(v, o)
  /\ pc[v] # "remove"
       => StreamOf(v) = SubSeq(log[o], joined[v] + 1, Handed(v, o))

\* A log is at least as long as what was handed on of it.
LEMMA HandedType ==
  ASSUME StreamInv, NEW o \in Rooms, NEW v \in Workers, v \in members[o]
  PROVE  /\ Handed(v, o) \in Nat /\ Handed(v, o) <= Len(log[o])
         /\ joined[v] \in Nat /\ joined[v] <= Handed(v, o)
<1>1. Len(log[o]) \in Nat /\ joined[v] \in Nat
  BY LenProperties DEF StreamInv, Inv, TypeOK
<1>2. joined[v] <= Handed(v, o)
  BY DEF StreamInv, JoinedInLog
<1>3. Handed(v, o) = Len(log[o]) \/ Handed(v, o) = Len(log[o]) - 1
  <2>1. CASE Pending(v, o)
    BY <1>1, <2>1 DEF Handed
  <2>2. CASE ~Pending(v, o)
    BY <1>1, <2>2 DEF Handed
  <2> QED
    BY <2>1, <2>2
<1> DEFINE h == Handed(v, o)
           l == Len(log[o])
           j == joined[v]
<1>4. /\ l \in Nat /\ j \in Nat /\ j <= h
      /\ h = l \/ h = l - 1
  BY <1>1, <1>2, <1>3
<1> HIDE DEF h, l, j
<1>5. h \in Nat /\ h <= l
  BY <1>4
<1> QED
  BY <1>4, <1>5 DEF h, l, j

\* A step that picks and pushes for nobody leaves Pending alone.
LEMMA SamePending ==
  ASSUME UNCHANGED <<lock, visited, cur>>,
         \A b \in Workers : pc'[b] = "b_push" <=> pc[b] = "b_push",
         NEW v \in Workers, NEW o \in Rooms
  PROVE  Pending(v, o)' <=> Pending(v, o)
BY DEF Pending

\* A step that leaves the stream of a member and its part of the log alone.
LEMMA QuietMember ==
  ASSUME StreamInv, NEW o \in Rooms, NEW v \in Workers, v \in members[o],
         log'[o] = log[o], joined'[v] = joined[v],
         pc'[v] # "remove" => pc[v] # "remove" /\ StreamOf(v)' = StreamOf(v),
         Pending(v, o)' <=> Pending(v, o)
  PROVE  InStep(v, o)'
<1>1. Handed(v, o)' = Handed(v, o)
  BY DEF Handed
<1>2. InStep(v, o)
  BY DEF StreamInv, JoinedInLog, StreamExact, InStep, StreamOf
<1> QED
  BY <1>1, <1>2 DEF InStep

\* A receiver joins at the end of the log, with nothing written, in hand or
\* queued; nobody is broadcasting, for the room is locked.
LEMMA AddMemberStream ==
  ASSUME StreamInv, NEW w \in Workers, AddMember(w),
         NEW o \in Rooms, NEW v \in Workers, v \in members'[o]
  PROVE  InStep(v, o)'
<1>0. /\ pc \in [Workers -> Steps]
      /\ members \in [Rooms -> SUBSET Workers]
      /\ joined \in [Workers -> Nat]
      /\ room[w] \in Rooms
      /\ pc[w] = "add" /\ pc' = [pc EXCEPT ![w] = "join_ok"]
  BY DEF AddMember, Step, StreamInv, Inv, TypeOK, ArgumentsThere
<1>1. /\ members' = [members EXCEPT ![room[w]] = members[room[w]] \cup {w}]
      /\ joined' = [joined EXCEPT ![w] = Len(log[room[w]])]
      /\ UNCHANGED <<log, lock, visited, cur, wire, hand, queue>>
      /\ lock[room[w]] = Null
  BY DEF AddMember, loop
<1>2. w \notin members[o]
  BY <1>0 DEF StreamInv, Inv, MembershipExact
<1>3. CASE v = w
  <2>1. o = room[w]
    BY <1>0, <1>1, <1>2, <1>3
  <2>2. ~Pending(v, o)'
    BY <1>1, <2>1, NullAssumption DEF Pending
  <2>3. joined'[v] = Len(log[o])
    BY <1>0, <1>1, <1>3, <2>1
  <2>4. log[o] \in Seq(Messages) /\ Len(log[o]) \in Nat
    BY LenProperties DEF StreamInv, Inv, TypeOK
  <2>5. Handed(v, o)' = Len(log[o])
    BY <1>1, <2>2, <2>4 DEF Handed
  <2>6. wire[v] = <<>> /\ hand[v] = <<>> /\ queue[v] = <<>>
    BY <1>0, <1>3 DEF StreamInv, HandExact, Untouched
  <2>7. StreamOf(v)' = <<>>
    BY <1>1, <2>6 DEF StreamOf
  <2>8. SubSeq(log[o], Len(log[o]) + 1, Len(log[o])) = <<>>
    BY <2>4, SubSeqEmpty
  <2> QED
    BY <1>1, <2>3, <2>4, <2>5, <2>7, <2>8 DEF InStep
<1>4. CASE v # w
  <2>1. v \in members[o] /\ joined'[v] = joined[v] /\ pc'[v] = pc[v]
    BY <1>0, <1>1, <1>4
  <2>2. Pending(v, o)' <=> Pending(v, o)
    BY <1>0, <1>1, SamePending
  <2>3. StreamOf(v)' = StreamOf(v)
    BY <1>1 DEF StreamOf
  <2> QED
    BY <1>1, <2>1, <2>2, <2>3, QuietMember
<1> QED
  BY <1>3, <1>4

\* The receiver's own steps pass messages on, or end the stream.
LEMMA DrainsStream ==
  ASSUME StreamInv, NEW w \in Workers, Drains(w),
         NEW o \in Rooms, NEW v \in Workers, v \in members[o]
  PROVE  InStep(v, o)'
<1>0. /\ pc \in [Workers -> Steps]
      /\ hand \in [Workers -> Seq(Messages)]
      /\ wire \in [Workers -> Seq(Messages)]
      /\ queue \in [Workers -> Seq(Messages)]
  BY DEF StreamInv, Inv, TypeOK
<1>1. UNCHANGED <<log, joined, lock, visited, cur>>
  BY DEF Drains, Dequeue, Deliver, DeliverFails, roomVars, loop
<1>2. /\ \A b \in Workers : pc'[b] = "b_push" <=> pc[b] = "b_push"
      /\ pc'[v] # "remove" => pc[v] # "remove"
  BY <1>0 DEF Drains, Dequeue, Deliver, DeliverFails, Step
<1>3. ASSUME pc'[v] # "remove" PROVE StreamOf(v)' = StreamOf(v)
  <2>1. CASE v # w
    BY <1>0, <2>1 DEF Drains, Dequeue, Deliver, DeliverFails, StreamOf
  <2>2. CASE v = w /\ Dequeue(w)
    <3>1. queue[w] # <<>>
      BY <2>2, AvailFindsMessage DEF Dequeue, StreamInv, Inv
    <3>2. hand[w] = <<>>
      BY <2>2 DEF Dequeue, Step, StreamInv, HandExact
    <3>3. /\ hand'[w] = <<Head(queue[w])>> /\ queue'[w] = Tail(queue[w])
          /\ wire'[w] = wire[w]
      BY <1>0, <2>2 DEF Dequeue
    <3>4. wire[w] \in Seq(Messages) /\ queue[w] \in Seq(Messages)
      BY <1>0
    <3>5. wire[w] \o <<Head(queue[w])>> \o Tail(queue[w])
            = wire[w] \o <<>> \o queue[w]
      BY <3>1, <3>4, Moved
    <3> QED
      BY <2>2, <3>2, <3>3, <3>5 DEF StreamOf
  <2>3. CASE v = w /\ Deliver(w)
    <3>1. /\ wire'[w] = wire[w] \o hand[w] /\ hand'[w] = <<>>
          /\ queue'[w] = queue[w]
      BY <1>0, <2>3 DEF Deliver
    <3>2. /\ wire[w] \in Seq(Messages) /\ hand[w] \in Seq(Messages)
          /\ queue[w] \in Seq(Messages)
      BY <1>0
    <3>3. (wire[w] \o hand[w]) \o <<>> \o queue[w]
            = wire[w] \o hand[w] \o queue[w]
      BY <3>2, Moved
    <3> QED
      BY <2>3, <3>1, <3>3 DEF StreamOf
  <2>4. CASE v = w /\ DeliverFails(w)
    BY <1>0, <1>3, <2>4 DEF DeliverFails, Step
  <2> QED
    BY <2>1, <2>2, <2>3, <2>4 DEF Drains
<1> QED
  BY <1>1, <1>2, <1>3, SamePending, QuietMember

\* Locking the room puts one more message in the log, and every member is now
\* one behind.
LEMMA LockStream ==
  ASSUME StreamInv, NEW w \in Workers, BroadcastLock(w),
         NEW o \in Rooms, NEW v \in Workers, v \in members[o]
  PROVE  InStep(v, o)'
<1>0. /\ lock \in [Rooms -> Workers \cup {Null}]
      /\ log \in [Rooms -> Seq(Messages)]
      /\ room[w] \in Rooms /\ msg[w] \in Messages
  BY DEF BroadcastLock, Step, StreamInv, Inv, TypeOK, ArgumentsThere,
         BroadcastSteps
<1>1. /\ pc[w] = "b_lock" /\ pc' = [pc EXCEPT ![w] = "b_next"]
      /\ lock[room[w]] = Null /\ lock' = [lock EXCEPT ![room[w]] = w]
      /\ log' = [log EXCEPT ![room[w]] = Append(log[room[w]], msg[w])]
      /\ UNCHANGED <<joined, visited, cur, wire, hand, queue>>
  BY DEF BroadcastLock, Step, loop, stream
<1>2. /\ \A b \in Workers : pc'[b] = "b_push" <=> pc[b] = "b_push"
      /\ pc'[v] # "remove" => pc[v] # "remove"
  <2>1. pc \in [Workers -> Steps]
    BY DEF StreamInv, Inv, TypeOK
  <2> QED
    BY <1>1, <2>1
<1>3. StreamOf(v)' = StreamOf(v)
  BY <1>1 DEF StreamOf
<1>4. CASE o = room[w]
  <2>1. ~Pending(v, o)
    BY <1>1, <1>4, NullAssumption DEF Pending
  <2>2. Pending(v, o)'
    <3>1. lock'[o] = w
      BY <1>0, <1>1, <1>4
    <3>2. v \notin visited'[w]
      BY <1>1 DEF StreamInv, LoopExact, InLoop
    <3> QED
      BY <3>1, <3>2 DEF Pending
  <2>3. /\ log'[o] = Append(log[o], msg[w])
        /\ log[o] \in Seq(Messages) /\ Len(log[o]) \in Nat
    BY <1>0, <1>1, <1>4, LenProperties
  <2>4. Len(log'[o]) = Len(log[o]) + 1
    BY <1>0, <2>3, AppendProperties
  <2>5. Handed(v, o) = Len(log[o]) /\ Handed(v, o)' = Len(log[o])
    BY <2>1, <2>2, <2>3, <2>4 DEF Handed
  <2>6. joined[v] \in Nat /\ joined[v] <= Len(log[o])
    BY <2>5, HandedType
  <2>7. SubSeq(log'[o], joined[v] + 1, Len(log[o]))
          = SubSeq(log[o], joined[v] + 1, Len(log[o]))
    <3>1. joined[v] + 1 \in 1 .. Len(log[o]) + 1
      BY <2>3, <2>6
    <3>2. log[o] \in Seq(Messages) /\ msg[w] \in Messages
      BY <1>0, <2>3
    <3>3. SubSeq(Append(log[o], msg[w]), joined[v] + 1, Len(log[o]))
            = SubSeq(log[o], joined[v] + 1, Len(log[o]))
      BY <3>1, <3>2, LogGrows
    <3> QED
      BY <2>3, <3>3
  <2>8. pc[v] # "remove"
          => StreamOf(v) = SubSeq(log[o], joined[v] + 1, Len(log[o]))
    BY <2>5 DEF StreamInv, StreamExact, StreamOf
  <2> QED
    BY <1>1, <1>2, <1>3, <2>5, <2>6, <2>7, <2>8 DEF InStep
<1>5. CASE o # room[w]
  <2>1. lock'[o] = lock[o] /\ log'[o] = log[o]
    BY <1>0, <1>1, <1>5
  <2>2. Pending(v, o)' <=> Pending(v, o)
    BY <1>1, <1>2, <2>1 DEF Pending
  <2> QED
    BY <1>1, <1>2, <1>3, <2>1, <2>2, QuietMember
<1> QED
  BY <1>4, <1>5

\* The push is what a member was behind: the last message of the log.
LEMMA PushStream ==
  ASSUME StreamInv, NEW w \in Workers, BroadcastPush(w),
         NEW o \in Rooms, NEW v \in Workers, v \in members[o]
  PROVE  InStep(v, o)'
<1>0. /\ lock \in [Rooms -> Workers \cup {Null}]
      /\ log \in [Rooms -> Seq(Messages)]
      /\ pc \in [Workers -> Steps]
      /\ wire \in [Workers -> Seq(Messages)]
      /\ hand \in [Workers -> Seq(Messages)]
      /\ queue \in [Workers -> Seq(Messages)]
      /\ room[w] \in Rooms /\ msg[w] \in Messages
  BY DEF BroadcastPush, Step, StreamInv, Inv, TypeOK, ArgumentsThere,
         BroadcastSteps
<1>1. /\ pc[w] = "b_push" /\ pc' = [pc EXCEPT ![w] = "b_post"]
      /\ queue' = [queue EXCEPT ![cur[w]] = Append(queue[cur[w]], msg[w])]
      /\ UNCHANGED <<lock, log, joined, visited, cur, wire, hand>>
  BY DEF BroadcastPush, Step, roomVars, loop
<1>2. /\ lock[room[w]] = w
      /\ \A x \in Rooms : lock[x] = w => x = room[w]
      /\ cur[w] \in visited[w] /\ cur[w] \in members[room[w]]
      /\ log[room[w]] # <<>> /\ log[room[w]][Len(log[room[w]])] = msg[w]
  BY <1>0, <1>1
     DEF StreamInv, Inv, RoomLockExact, CursorIsMember, LoopExact, InLoop
<1>3. CASE v = cur[w]
  <2>1. o = room[w]
    BY <1>0, <1>2, <1>3 DEF StreamInv, Inv, MembershipExact
  <2>2. Pending(v, o)
    BY <1>1, <1>2, <1>3, <2>1 DEF Pending
  <2>3. ~Pending(v, o)'
    <3>1. pc'[w] = "b_post"
      BY <1>0, <1>1
    <3> QED
      BY <1>1, <1>2, <1>3, <2>1, <3>1 DEF Pending
  <2>4. log[o] \in Seq(Messages) /\ Len(log[o]) \in Nat
    BY <1>0, LenProperties
  <2>5. Handed(v, o) = Len(log[o]) - 1 /\ Handed(v, o)' = Len(log[o])
    BY <1>1, <2>2, <2>3, <2>4 DEF Handed
  <2>6. joined[v] \in Nat /\ joined[v] <= Len(log[o]) - 1
    BY <2>5, HandedType
  <2>7. StreamOf(v)' = Append(StreamOf(v), msg[w])
    <3>1. queue'[v] = Append(queue[v], msg[w])
      BY <1>0, <1>1, <1>3
    <3> DEFINE s == wire[v] \o hand[v]
    <3>2. s \in Seq(Messages)
      BY <1>0, ConcatProperties
    <3>3. StreamOf(v) = s \o queue[v]
          /\ StreamOf(v)' = s \o Append(queue[v], msg[w])
      BY <1>1, <3>1 DEF StreamOf
    <3> HIDE DEF s
    <3>4. queue[v] \in Seq(Messages) /\ msg[w] \in Messages
      BY <1>0
    <3>5. s \o Append(queue[v], msg[w]) = Append(s \o queue[v], msg[w])
      BY <3>2, <3>4, MovedIn
    <3> QED
      BY <3>3, <3>5
  <2>8. Append(SubSeq(log[o], joined[v] + 1, Len(log[o]) - 1), msg[w])
          = SubSeq(log[o], joined[v] + 1, Len(log[o]))
    <3>1. joined[v] + 1 \in 1 .. Len(log[o])
      BY <2>4, <2>6
    <3> QED
      BY <1>2, <2>1, <2>4, <3>1, CatchesUp
  <2>9. pc[v] # "remove"
          => StreamOf(v) = SubSeq(log[o], joined[v] + 1, Len(log[o]) - 1)
    BY <2>5 DEF StreamInv, StreamExact, StreamOf
  <2>10. pc'[v] # "remove" => pc[v] # "remove"
    BY <1>0, <1>1
  <2>11. joined'[v] <= Handed(v, o)'
    BY <1>1, <2>4, <2>5, <2>6
  <2>12. pc'[v] # "remove"
           => StreamOf(v)' = SubSeq(log'[o], joined'[v] + 1, Handed(v, o)')
    BY <1>1, <2>5, <2>7, <2>8, <2>9, <2>10, Zenon
  <2> QED
    BY <2>11, <2>12 DEF InStep
<1>4. CASE v # cur[w]
  <2>1. Pending(v, o)' <=> Pending(v, o)
    <3>1. \A b \in Workers : (pc'[b] = "b_push" /\ cur[b] = v)
                               <=> (pc[b] = "b_push" /\ cur[b] = v)
      BY <1>0, <1>1, <1>4
    <3> QED
      BY <1>1, <3>1 DEF Pending
  <2>2. StreamOf(v)' = StreamOf(v)
    BY <1>0, <1>1, <1>4 DEF StreamOf
  <2>3. pc'[v] # "remove" => pc[v] # "remove"
    BY <1>0, <1>1
  <2> QED
    BY <1>1, <2>1, <2>2, <2>3, QuietMember
<1> QED
  BY <1>3, <1>4

\* The rest of the loop hands on nothing: a member that is picked is as far
\* behind as before, and at the end there is none behind.
LEMMA LoopStream ==
  ASSUME StreamInv, NEW w \in Workers,
         \/ \E u \in Workers : BroadcastNext(w, u)
         \/ BroadcastPost(w)
         \/ BroadcastUnlock(w),
         NEW o \in Rooms, NEW v \in Workers, v \in members[o]
  PROVE  InStep(v, o)'
<1>0. /\ lock \in [Rooms -> Workers \cup {Null}]
      /\ pc \in [Workers -> Steps]
      /\ cur \in [Workers -> Workers \cup {Null}]
      /\ visited \in [Workers -> SUBSET Workers]
      /\ \A x \in Rooms : lock[x] = w => x = room[w]
      /\ room[w] \in Rooms
      /\ lock[room[w]] = w
  BY DEF BroadcastNext, BroadcastPost, BroadcastUnlock, Step, StreamInv, Inv,
         TypeOK, RoomLockExact, ArgumentsThere, BroadcastSteps
<1>1. /\ UNCHANGED <<log, joined, wire, hand, queue>>
      /\ pc'[v] # "remove" => pc[v] # "remove"
  BY <1>0
     DEF BroadcastNext, BroadcastPost, BroadcastUnlock, Step, roomVars, stream
<1>2. StreamOf(v)' = StreamOf(v)
  BY <1>1 DEF StreamOf
<1>3. ASSUME NEW u \in Workers, BroadcastNext(w, u)
      PROVE  Pending(v, o)' <=> Pending(v, o)
  <2>1. /\ pc[w] = "b_next" /\ pc' = [pc EXCEPT ![w] = "b_push"]
        /\ cur' = [cur EXCEPT ![w] = u] /\ lock' = lock
        /\ visited' = [visited EXCEPT ![w] = visited[w] \cup {u}]
        /\ u \notin visited[w]
    BY <1>3 DEF BroadcastNext, Step, roomVars
  <2>2. (v \notin visited'[w] \/ (pc'[w] = "b_push" /\ cur'[w] = v))
          <=> (v \notin visited[w] \/ (pc[w] = "b_push" /\ cur[w] = v))
    BY <1>0, <2>1
  <2>3. \A b \in Workers : b # w => /\ visited'[b] = visited[b]
                                    /\ pc'[b] = pc[b] /\ cur'[b] = cur[b]
    BY <1>0, <2>1
  <2> QED
    BY <2>1, <2>2, <2>3 DEF Pending
<1>4. ASSUME BroadcastPost(w) PROVE Pending(v, o)' <=> Pending(v, o)
  <2>1. /\ UNCHANGED <<lock, visited, cur>>
        /\ \A b \in Workers : pc'[b] = "b_push" <=> pc[b] = "b_push"
    BY <1>0, <1>4 DEF BroadcastPost, Step, roomVars, loop
  <2> QED
    BY <2>1, SamePending
<1>5. ASSUME BroadcastUnlock(w) PROVE Pending(v, o)' <=> Pending(v, o)
  <2>1. /\ pc[w] = "b_next" /\ pc' = [pc EXCEPT ![w] = "reply"]
        /\ lock' = [lock EXCEPT ![room[w]] = Null]
        /\ cur' = [cur EXCEPT ![w] = Null]
        /\ visited' = [visited EXCEPT ![w] = {}]
        /\ members[room[w]] \subseteq visited[w]
    BY <1>5 DEF BroadcastUnlock, Step
  <2>2. CASE o = room[w]
    <3>1. lock'[o] = Null /\ lock[o] = w
      BY <1>0, <2>1, <2>2
    <3>2. v \in visited[w] /\ pc[w] # "b_push"
      BY <2>1, <2>2
    <3>3. ~Pending(v, o)
      BY <3>1, <3>2 DEF Pending
    <3>4. ~Pending(v, o)'
      BY <3>1, NullAssumption DEF Pending
    <3> QED
      BY <3>3, <3>4
  <2>3. CASE o # room[w]
    <3>1. lock'[o] = lock[o] /\ lock[o] # w
      BY <1>0, <2>1, <2>3
    <3>2. \A b \in Workers : b # w => /\ visited'[b] = visited[b]
                                      /\ pc'[b] = pc[b] /\ cur'[b] = cur[b]
      BY <1>0, <2>1
    <3> QED
      BY <3>1, <3>2 DEF Pending
  <2> QED
    BY <2>2, <2>3
<1> QED
  BY <1>1, <1>2, <1>3, <1>4, <1>5, QuietMember

\* The other steps have nothing to do with streams.
LEMMA OthersStream ==
  ASSUME StreamInv, NEW w \in Workers,
         \/ MovesOn(w) \/ Asks(w) \/ FindOrCreateRoom(w)
         \/ JoinOk(w) \/ RemoveMember(w) \/ Delete(w),
         NEW o \in Rooms, NEW v \in Workers, v \in members[o], v \in members'[o]
  PROVE  InStep(v, o)'
<1>0. /\ pc \in [Workers -> Steps] /\ queue \in [Workers -> Seq(Messages)]
      /\ members \in [Rooms -> SUBSET Workers]
  BY DEF StreamInv, Inv, TypeOK
<1>1. pc[v] \in {"join_ok", "dequeue", "send", "remove"}
  BY DEF StreamInv, Inv, MembershipExact
<1>2. ASSUME MovesOn(w)
      PROVE  /\ UNCHANGED <<log, joined, lock, visited, cur, wire, hand, queue>>
             /\ \A b \in Workers : pc'[b] = "b_push" <=> pc[b] = "b_push"
             /\ pc'[v] # "remove" => pc[v] # "remove"
  BY <1>0, <1>2
     DEF MovesOn, Accept, Disconnect, EndOfInput, LoginFails, ReceiverRefused,
         Quit, Refuse, Reply, Move, Step, roomVars, loop, stream
<1>3. ASSUME Asks(w)
      PROVE  /\ UNCHANGED <<log, joined, lock, visited, cur, wire, hand, queue>>
             /\ \A b \in Workers : pc'[b] = "b_push" <=> pc[b] = "b_push"
             /\ pc'[v] # "remove" => pc[v] # "remove"
  BY <1>0, <1>3
     DEF Asks, Login, ReceiverJoins, SenderJoins, SenderLeaves, SendAll, Step,
         roomVars, loop, stream
<1>4. ASSUME FindOrCreateRoom(w)
      PROVE  /\ UNCHANGED <<log, joined, lock, visited, cur, wire, hand, queue>>
             /\ \A b \in Workers : pc'[b] = "b_push" <=> pc[b] = "b_push"
             /\ pc'[v] # "remove" => pc[v] # "remove"
  BY <1>0, <1>4
     DEF FindOrCreateRoom, FindLock, FindMisses, FindReturns, Return, Create,
         Move, Step, roomVars, loop, stream
<1>5. ASSUME JoinOk(w) \/ RemoveMember(w) \/ Delete(w)
      PROVE  /\ UNCHANGED <<log, joined, lock, visited, cur, wire, hand>>
             /\ \A b \in Workers : pc'[b] = "b_push" <=> pc[b] = "b_push"
             /\ pc'[v] # "remove" => pc[v] # "remove"
             /\ queue'[v] = queue[v]
  <2>1. CASE JoinOk(w)
    BY <1>0, <1>1, <2>1 DEF JoinOk, Move, Step, roomVars, loop, stream
  <2>2. CASE RemoveMember(w)
    <3>1. v # w
      BY <1>0, <2>2 DEF RemoveMember, StreamInv, Inv, MembershipExact
    <3> QED
      BY <1>0, <2>2, <3>1 DEF RemoveMember, Step, loop, stream
  <2>3. CASE Delete(w)
    BY <1>0, <1>1, <2>3 DEF Delete, Step, roomVars, loop
  <2> QED
    BY <1>5, <2>1, <2>2, <2>3
<1> QED
  BY <1>2, <1>3, <1>4, <1>5, SamePending, QuietMember DEF StreamOf

\* Every step leaves every member in step with the log of its room.
LEMMA MembersStep ==
  ASSUME StreamInv, [Next]_vars, NEW o \in Rooms, NEW v \in members'[o]
  PROVE  InStep(v, o)'
<1>0. /\ members \in [Rooms -> SUBSET Workers]
      /\ members' \in [Rooms -> SUBSET Workers]
      /\ v \in Workers
  BY TypeStep DEF StreamInv, Inv, TypeOK
<1>1. ASSUME NEW w \in Workers, AddMember(w) PROVE InStep(v, o)'
  BY <1>0, <1>1, AddMemberStream
<1>2. ASSUME NEW w \in Workers, Drains(w) PROVE InStep(v, o)'
  <2>1. v \in members[o]
    BY <1>2 DEF Drains, Dequeue, Deliver, DeliverFails, roomVars
  <2> QED
    BY <1>0, <1>2, <2>1, DrainsStream
<1>3. ASSUME NEW w \in Workers, Broadcast(w) PROVE InStep(v, o)'
  <2>1. v \in members[o]
    BY <1>3
       DEF Broadcast, BroadcastLock, BroadcastNext, BroadcastPush,
           BroadcastPost, BroadcastUnlock, roomVars
  <2> QED
    BY <1>0, <1>3, <2>1, LockStream, PushStream, LoopStream DEF Broadcast
<1>4. ASSUME NEW w \in Workers,
             \/ MovesOn(w) \/ Asks(w) \/ FindOrCreateRoom(w)
             \/ JoinOk(w) \/ RemoveMember(w) \/ Delete(w)
      PROVE  InStep(v, o)'
  <2>1. CASE MovesOn(w)
    <3>1. v \in members[o]
      BY <2>1
         DEF MovesOn, Accept, Disconnect, EndOfInput, LoginFails,
             ReceiverRefused, Quit, Refuse, Reply, Move, roomVars
    <3> QED
      BY <1>0, <2>1, <3>1, OthersStream
  <2>2. CASE Asks(w)
    <3>1. v \in members[o]
      BY <2>2
         DEF Asks, Login, ReceiverJoins, SenderJoins, SenderLeaves, SendAll,
             roomVars
    <3> QED
      BY <1>0, <2>2, <3>1, OthersStream
  <2>3. CASE FindOrCreateRoom(w)
    <3>1. v \in members[o]
      BY <2>3
         DEF FindOrCreateRoom, FindLock, FindMisses, FindReturns, Return,
             Create, Move, roomVars
    <3> QED
      BY <1>0, <2>3, <3>1, OthersStream
  <2>4. CASE JoinOk(w) \/ RemoveMember(w) \/ Delete(w)
    <3>1. v \in members[o]
      BY <1>0, <2>4 DEF JoinOk, RemoveMember, Delete, Move, roomVars
    <3> QED
      BY <1>0, <2>4, <3>1, OthersStream
  <2> QED
    BY <1>4, <2>1, <2>2, <2>3, <2>4
<1>5. CASE UNCHANGED vars
  <2>1. /\ v \in members[o] /\ pc' = pc
        /\ UNCHANGED <<log, joined, lock, visited, cur, wire, hand, queue>>
    BY <1>5 DEF vars, roomVars, loop, stream
  <2>2. StreamOf(v)' = StreamOf(v)
    BY <2>1 DEF StreamOf
  <2>3. Pending(v, o)' <=> Pending(v, o)
    BY <2>1 DEF Pending
  <2> QED
    BY <1>0, <2>1, <2>2, <2>3, QuietMember
<1> QED
  BY <1>1, <1>2, <1>3, <1>4, <1>5 DEF Next, Request, Run, MovesOn, Asks, Drains

\* Every member keeps its place in the log, and its stream.
LEMMA StreamStep ==
  ASSUME StreamInv, [Next]_vars PROVE JoinedInLog' /\ StreamExact'
<1>1. ASSUME NEW o \in Rooms, NEW v \in members'[o]
      PROVE  /\ joined'[v] <= Handed(v, o)'
             /\ pc'[v] # "remove"
                  => wire'[v] \o hand'[v] \o queue'[v]
                       = SubSeq(log'[o], joined'[v] + 1, Handed(v, o)')
  BY <1>1, MembersStep DEF InStep, StreamOf
<1>2. JoinedInLog'
  BY <1>1 DEF JoinedInLog
<1>3. StreamExact'
  BY <1>1 DEF StreamExact
<1> QED
  BY <1>2, <1>3

------------------------------------------------------------------------------
(* The theorems about streams *)

\* At the start nothing was said to anyone.
LEMMA StreamInit == Init => StreamInv
<1> SUFFICES ASSUME Init PROVE StreamInv
  OBVIOUS
<1>1. HandExact /\ Untouched /\ LoopExact /\ UnusedEmpty
  BY DEF Init, HandExact, Untouched, LoopExact, InLoop, UnusedEmpty
<1>2. JoinedInLog /\ StreamExact
  BY DEF Init, JoinedInLog, StreamExact
<1> QED
  BY InvInit, <1>1, <1>2 DEF StreamInv

\* StreamInv holds in every state the workers and the clients can bring about.
THEOREM StreamInvariance == Spec => []StreamInv
<1>1. ASSUME StreamInv, [Next]_vars PROVE StreamInv'
  BY <1>1, InvStep, HandStep, UntouchedStep, LoopStep, UnusedStep, StreamStep
     DEF StreamInv
<1> QED
  BY StreamInit, <1>1, PTL DEF Spec

\* Written, in hand and queued together are what was broadcast to the room
\* since the member joined, in order, without loss or repetition.
THEOREM StreamsCorrect == Spec => []StreamExact
BY StreamInvariance, PTL DEF StreamInv

------------------------------------------------------------------------------
(* The server implements RoomBroadcast *)

\* What the refinement mapping makes of a state.
Logs == [n \in Names |-> IF m_rooms[n] = Null THEN <<>> ELSE log[m_rooms[n]]]
Where == [w \in Workers |-> IF IsMember(w) THEN RoomName(room[w]) ELSE Null]

\* The initial states map to the initial state.
LEMMA AbstractInit == Init => Abstract!Init
BY DEF Init, Abstract!Init, IsMember

\* A step that clients do not see.
LEMMA Stutters ==
  ASSUME Logs' = Logs, Where' = Where, wire' = wire, joined' = joined
  PROVE  UNCHANGED Abstract!vars
BY DEF Abstract!vars, Logs, Where

\* A receiver that stays inside, or outside, keeps its place.
LEMMA SameWhere ==
  ASSUME \A v \in Workers : /\ IsMember(v)' <=> IsMember(v)
                            /\ IsMember(v) => room'[v] = room[v]
  PROVE  Where' = Where
BY DEF Where

\* One receiver leaves; the others stay where they are.
LEMMA Leaves ==
  ASSUME NEW w \in Workers, IsMember(w), room[w] \in Rooms,
         Logs' = Logs, wire' = wire, joined' = joined, room' = room,
         ~IsMember(w)',
         \A v \in Workers : v # w => (IsMember(v)' <=> IsMember(v))
  PROVE  Abstract!Leave(w)
<1>1. Where[w] # Null
  BY NullAssumption DEF Where, Rooms, RoomName
<1>2. Where' = [Where EXCEPT ![w] = Null]
  BY DEF Where
<1> QED
  BY <1>1, <1>2 DEF Abstract!Leave, Logs, Where

\* A step of the clients, or of a worker that only moves on.
LEMMA QuietMaps ==
  ASSUME StreamInv, NEW w \in Workers,
         MovesOn(w) \/ Asks(w) \/ RemoveMember(w) \/ Delete(w) \/ Dequeue(w)
  PROVE  UNCHANGED Abstract!vars
<1>0. /\ pc \in [Workers -> Steps]
      /\ room \in [Workers -> Rooms \cup {Null}]
  BY DEF StreamInv, Inv, TypeOK
<1>1. UNCHANGED <<log, joined, wire, m_rooms>>
  BY DEF MovesOn, Asks, Accept, Disconnect, EndOfInput, LoginFails,
         ReceiverRefused, Quit, Refuse, Reply, Login, ReceiverJoins,
         SenderJoins, SenderLeaves, SendAll, RemoveMember, Delete, Dequeue,
         Move, server, roomVars, stream
<1>2. \A v \in Workers : /\ IsMember(v)' <=> IsMember(v)
                         /\ IsMember(v) => room'[v] = room[v]
  <2>1. CASE MovesOn(w)
    BY <1>0, <2>1
       DEF MovesOn, Accept, Disconnect, EndOfInput, LoginFails,
           ReceiverRefused, Quit, Refuse, Reply, Move, Step, IsMember
  <2>2. CASE Asks(w)
    BY <1>0, <2>2
       DEF Asks, Login, ReceiverJoins, SenderJoins, SenderLeaves, SendAll,
           Step, IsMember
  <2>3. CASE RemoveMember(w) \/ Delete(w) \/ Dequeue(w)
    BY <1>0, <2>3 DEF RemoveMember, Delete, Dequeue, Step, IsMember
  <2> QED
    BY <2>1, <2>2, <2>3
<1>3. Logs' = Logs
  BY <1>1 DEF Logs
<1> QED
  BY <1>1, <1>2, <1>3, SameWhere, Stutters

\* Looking up a room, or creating one, to which nothing was said.
LEMMA FindMaps ==
  ASSUME StreamInv, NEW w \in Workers, FindOrCreateRoom(w)
  PROVE  UNCHANGED Abstract!vars
<1>0. /\ pc \in [Workers -> Steps]
      /\ room \in [Workers -> Rooms \cup {Null}]
      /\ m_rooms \in [Names -> Rooms \cup {Null}]
  BY DEF StreamInv, Inv, TypeOK
<1>1. UNCHANGED <<log, joined, wire>>
  BY DEF FindOrCreateRoom, FindLock, FindMisses, FindReturns, Return, Create,
         Move, roomVars, stream
<1>2. \A v \in Workers : /\ IsMember(v)' <=> IsMember(v)
                         /\ IsMember(v) => room'[v] = room[v]
  BY <1>0
     DEF FindOrCreateRoom, FindLock, FindMisses, FindReturns, Return, Create,
         Move, Step, IsMember
<1>3. CASE FindLock(w) \/ FindMisses(w) \/ FindReturns(w)
  <2>1. Logs' = Logs
    BY <1>1, <1>3 DEF FindLock, FindMisses, FindReturns, Move, server, Logs
  <2> QED
    BY <1>1, <1>2, <2>1, SameWhere, Stutters
<1>4. CASE Create(w)
  <2> DEFINE o == <<name[w], w>>
  <2>1. /\ name[w] \in Names /\ m_rooms[name[w]] = Null
        /\ m_rooms' = [m_rooms EXCEPT ![name[w]] = o]
    BY <1>4, <1>0
       DEF Create, Return, Step, StreamInv, Inv, ArgumentsThere, MapExact,
           FindSteps
  <2>2. o \in Rooms /\ o # Null /\ RoomName(o) = name[w]
    BY <2>1, NullAssumption DEF Rooms, RoomName
  <2>3. log[o] = <<>>
    BY <2>1, <2>2 DEF StreamInv, UnusedEmpty
  <2>4. Logs' = Logs
    <3> SUFFICES ASSUME NEW n \in Names
                 PROVE  (IF m_rooms'[n] = Null THEN <<>> ELSE log[m_rooms'[n]])
                          = (IF m_rooms[n] = Null THEN <<>>
                                                  ELSE log[m_rooms[n]])
      BY <1>1 DEF Logs
    <3> HIDE DEF o
    <3> QED
      BY <1>0, <2>1, <2>2, <2>3
  <2> QED
    BY <1>1, <1>2, <2>4, SameWhere, Stutters
<1> QED
  BY <1>3, <1>4 DEF FindOrCreateRoom

\* A receiver in the set of its room is a member at once.
LEMMA AddMaps ==
  ASSUME StreamInv, NEW w \in Workers, AddMember(w)
  PROVE  \E n \in Names : Abstract!Join(w, n)
<1>0. /\ pc \in [Workers -> Steps]
      /\ joined \in [Workers -> Nat]
      /\ pc[w] = "add" /\ pc' = [pc EXCEPT ![w] = "join_ok"]
      /\ joined' = [joined EXCEPT ![w] = Len(log[room[w]])]
      /\ UNCHANGED <<log, wire, m_rooms, room>>
  BY DEF AddMember, Step, StreamInv, Inv, TypeOK, server
<1> DEFINE n == RoomName(room[w])
<1>1. /\ room[w] \in Rooms /\ n \in Names /\ m_rooms[n] = room[w]
      /\ room[w] # Null
  BY <1>0, NullAssumption
     DEF StreamInv, Inv, ArgumentsThere, RoomUnique, Rooms, RoomName
<1>2. Where[w] = Null /\ wire[w] = <<>>
  BY <1>0 DEF Where, IsMember, StreamInv, Untouched
<1>3. Where' = [Where EXCEPT ![w] = n]
  BY <1>0 DEF Where, IsMember
<1>4. Logs' = Logs /\ Logs[n] = log[room[w]]
  BY <1>0, <1>1 DEF Logs
<1>5. joined' = [joined EXCEPT ![w] = Len(Logs[n])]
  BY <1>0, <1>4
<1>6. Abstract!Join(w, n)
  BY <1>0, <1>2, <1>3, <1>4, <1>5 DEF Abstract!Join, Logs, Where
<1> QED
  BY <1>1, <1>6

\* A message is published when its sender has locked the room.
LEMMA LockMaps ==
  ASSUME StreamInv, NEW w \in Workers, BroadcastLock(w)
  PROVE  \E n \in Names, m \in Messages : Abstract!Publish(n, m)
<1>0. /\ pc \in [Workers -> Steps]
      /\ log \in [Rooms -> Seq(Messages)]
      /\ m_rooms \in [Names -> Rooms \cup {Null}]
      /\ pc[w] = "b_lock" /\ pc' = [pc EXCEPT ![w] = "b_next"]
      /\ log' = [log EXCEPT ![room[w]] = Append(log[room[w]], msg[w])]
      /\ UNCHANGED <<wire, m_rooms, room, joined>>
  BY DEF BroadcastLock, Step, StreamInv, Inv, TypeOK, server, stream
<1> DEFINE n == RoomName(room[w])
<1>1. /\ room[w] \in Rooms /\ n \in Names /\ m_rooms[n] = room[w]
      /\ room[w] # Null /\ msg[w] \in Messages
  BY <1>0, NullAssumption
     DEF StreamInv, Inv, ArgumentsThere, BroadcastSteps, RoomUnique, Rooms,
         RoomName
<1>2. \A k \in Names : m_rooms[k] # Null => RoomName(m_rooms[k]) = k
  BY DEF StreamInv, Inv, MapExact
<1>3. Logs' = [Logs EXCEPT ![n] = Append(Logs[n], msg[w])]
  <2> SUFFICES ASSUME NEW k \in Names
               PROVE  Logs'[k] = IF k = n THEN Append(Logs[n], msg[w])
                                          ELSE Logs[k]
    BY <1>1 DEF Logs
  <2> HIDE DEF n
  <2>1. CASE k = n
    BY <1>0, <1>1, <2>1 DEF Logs
  <2>2. CASE k # n
    <3>1. m_rooms[k] # Null => m_rooms[k] \in Rooms /\ m_rooms[k] # room[w]
      BY <1>0, <1>2, <2>2 DEF n
    <3> QED
      BY <1>0, <2>2, <3>1 DEF Logs
  <2> QED
    BY <2>1, <2>2
<1>4. Where' = Where
  BY <1>0, SameWhere DEF IsMember
<1>5. PICK m \in Messages : m = msg[w]
  BY <1>1
<1>6. Abstract!Publish(n, m)
  BY <1>0, <1>3, <1>4, <1>5 DEF Abstract!Publish, Logs, Where
<1> QED
  BY <1>1, <1>6

\* The rest of the broadcast, which only fills queues.
LEMMA BroadcastMaps ==
  ASSUME StreamInv, NEW w \in Workers,
         \/ \E u \in Workers : BroadcastNext(w, u)
         \/ BroadcastPush(w) \/ BroadcastPost(w) \/ BroadcastUnlock(w)
  PROVE  UNCHANGED Abstract!vars
<1>0. pc \in [Workers -> Steps]
  BY DEF StreamInv, Inv, TypeOK
<1>1. UNCHANGED <<log, joined, wire, m_rooms, room>>
  BY DEF BroadcastNext, BroadcastPush, BroadcastPost, BroadcastUnlock, server,
         roomVars, stream
<1>2. \A v \in Workers : IsMember(v)' <=> IsMember(v)
  BY <1>0
     DEF BroadcastNext, BroadcastPush, BroadcastPost, BroadcastUnlock, Step,
         IsMember
<1>3. Logs' = Logs
  BY <1>1 DEF Logs
<1> QED
  BY <1>1, <1>2, <1>3, SameWhere, Stutters

\* The message written is the next one its receiver is owed.
LEMMA DeliverMaps ==
  ASSUME StreamInv, NEW w \in Workers, Deliver(w)
  PROVE  Abstract!Deliver(w)
<1>0. /\ pc \in [Workers -> Steps]
      /\ log \in [Rooms -> Seq(Messages)]
      /\ wire \in [Workers -> Seq(Messages)]
      /\ hand \in [Workers -> Seq(Messages)]
      /\ queue \in [Workers -> Seq(Messages)]
      /\ room \in [Workers -> Rooms \cup {Null}]
      /\ pc[w] = "send" /\ pc' = [pc EXCEPT ![w] = "dequeue"]
      /\ wire' = [wire EXCEPT ![w] = wire[w] \o hand[w]]
      /\ UNCHANGED <<log, m_rooms, room, joined>>
  BY DEF Deliver, Step, StreamInv, Inv, TypeOK, server, roomVars
<1> DEFINE n == RoomName(room[w])
<1>1. /\ room[w] \in Rooms /\ n \in Names /\ m_rooms[n] = room[w]
      /\ room[w] # Null /\ n # Null
  BY <1>0, NullAssumption
     DEF StreamInv, Inv, ArgumentsThere, RoomUnique, Rooms, RoomName
<1>2. w \in members[room[w]]
  BY <1>0, <1>1 DEF StreamInv, Inv, MembershipExact
<1>3. PICK m \in Messages : hand[w] = <<m>>
  BY <1>0 DEF StreamInv, HandExact
<1> DEFINE l == log[room[w]]
           j == joined[w]
           k == Handed(w, room[w])
           a == l[j + Len(wire[w]) + 1]
<1>4. /\ l \in Seq(Messages) /\ wire[w] \in Seq(Messages)
      /\ queue[w] \in Seq(Messages)
      /\ j \in Nat /\ k \in Nat /\ j <= k /\ k <= Len(l)
  BY <1>0, <1>1, <1>2, HandedType
<1>5. wire[w] \o <<m>> \o queue[w] = SubSeq(l, j + 1, k)
  BY <1>0, <1>1, <1>2, <1>3 DEF StreamInv, StreamExact
<1>6. j + Len(wire[w]) + 1 <= k /\ m = a
  <2>1. PICK x \in Seq(Messages), p \in Seq(Messages), q \in Seq(Messages),
             y \in Nat, z \in Nat :
          x = l /\ p = wire[w] /\ q = queue[w] /\ y = j /\ z = k
    BY <1>4
  <2>2. y <= z /\ z <= Len(x) /\ p \o <<m>> \o q = SubSeq(x, y + 1, z)
    BY <1>4, <1>5, <2>1
  <2>3. y + Len(p) + 1 <= z
    BY <2>2, NextOfLog, SMTT(60)
  <2>4. m = x[y + Len(p) + 1]
    BY <2>2, NextOfLog, SMTT(60)
  <2> QED
    BY <2>1, <2>3, <2>4
<1>7. j + Len(wire[w]) + 1 <= Len(l)
  <2>1. Len(wire[w]) \in Nat /\ Len(l) \in Nat
    BY <1>4, LenProperties
  <2> HIDE DEF l, j, k
  <2> QED
    BY <1>4, <1>6, <2>1
<1>8. Where[w] = n /\ Logs[n] = l
  BY <1>0, <1>1 DEF Where, IsMember, Logs
<1>9. Logs' = Logs /\ Where' = Where
  BY <1>0, SameWhere DEF Logs, IsMember
<1>10. wire' = [wire EXCEPT ![w] = Append(wire[w], a)]
  <2>1. wire[w] \o <<m>> = Append(wire[w], m)
    BY <1>3, <1>4, AppendIsConcat
  <2> QED
    BY <1>0, <1>3, <1>6, <2>1
<1>11. /\ Where[w] # Null
       /\ joined[w] + Len(wire[w]) + 1 <= Len(Logs[Where[w]])
       /\ wire' = [wire EXCEPT ![w] =
                     Append(wire[w],
                            Logs[Where[w]][joined[w] + Len(wire[w]) + 1])]
  BY <1>1, <1>7, <1>8, <1>10
<1> QED
  BY <1>0, <1>9, <1>11
     DEF Abstract!Deliver, Abstract!IsOwed, Abstract!Position, Logs, Where

\* A receiver that could not be written to is out.
LEMMA FailMaps ==
  ASSUME StreamInv, NEW w \in Workers, JoinOk(w) \/ DeliverFails(w)
  PROVE  Abstract!Leave(w) \/ UNCHANGED Abstract!vars
<1>0. /\ pc \in [Workers -> Steps]
      /\ room \in [Workers -> Rooms \cup {Null}]
      /\ UNCHANGED <<log, joined, wire, m_rooms, room>>
      /\ pc[w] \in {"join_ok", "send"}
      /\ \/ pc' = [pc EXCEPT ![w] = "dequeue"]
         \/ pc' = [pc EXCEPT ![w] = "remove"]
  BY DEF JoinOk, DeliverFails, Move, Step, StreamInv, Inv, TypeOK, server,
         roomVars, stream
<1>1. Logs' = Logs
  BY <1>0 DEF Logs
<1>2. CASE pc' = [pc EXCEPT ![w] = "dequeue"]
  BY <1>0, <1>1, <1>2, SameWhere, Stutters DEF IsMember
<1>3. CASE pc' = [pc EXCEPT ![w] = "remove"]
  <2>1. /\ IsMember(w) /\ ~IsMember(w)'
        /\ \A v \in Workers : v # w => (IsMember(v)' <=> IsMember(v))
    BY <1>0, <1>3 DEF IsMember
  <2>2. room[w] \in Rooms
    BY <1>0, NullAssumption DEF StreamInv, Inv, ArgumentsThere
  <2> QED
    BY <1>0, <1>1, <2>1, <2>2, Leaves
<1> QED
  BY <1>0, <1>2, <1>3

\* Every step maps to a step of RoomBroadcast, or to a stutter.
LEMMA StepMaps ==
  ASSUME StreamInv, [Next]_vars PROVE [Abstract!Next]_(Abstract!vars)
<1>1. ASSUME NEW w \in Workers, AddMember(w) PROVE Abstract!Next
  BY <1>1, AddMaps DEF Abstract!Next
<1>2. ASSUME NEW w \in Workers, BroadcastLock(w) PROVE Abstract!Next
  BY <1>2, LockMaps DEF Abstract!Next
<1>3. ASSUME NEW w \in Workers, Deliver(w) PROVE Abstract!Next
  BY <1>3, DeliverMaps DEF Abstract!Next
<1>4. ASSUME NEW w \in Workers, JoinOk(w) \/ DeliverFails(w)
      PROVE  Abstract!Next \/ UNCHANGED Abstract!vars
  BY <1>4, FailMaps DEF Abstract!Next
<1>5. ASSUME NEW w \in Workers,
             \/ MovesOn(w) \/ Asks(w) \/ RemoveMember(w) \/ Delete(w)
             \/ Dequeue(w)
      PROVE  UNCHANGED Abstract!vars
  BY <1>5, QuietMaps
<1>6. ASSUME NEW w \in Workers, FindOrCreateRoom(w)
      PROVE  UNCHANGED Abstract!vars
  BY <1>6, FindMaps
<1>7. ASSUME NEW w \in Workers,
             \/ \E u \in Workers : BroadcastNext(w, u)
             \/ BroadcastPush(w) \/ BroadcastPost(w) \/ BroadcastUnlock(w)
      PROVE  UNCHANGED Abstract!vars
  BY <1>7, BroadcastMaps
<1>8. CASE UNCHANGED vars
  BY <1>8, SameWhere, Stutters
     DEF vars, server, roomVars, stream, IsMember, Logs
<1> QED
  BY <1>1, <1>2, <1>3, <1>4, <1>5, <1>6, <1>7, <1>8
     DEF Next, Request, Run, Broadcast, MovesOn, Asks

\* Whatever the workers do, clients see rooms that broadcast in one order.
THEOREM ServerImplementsRoomBroadcast == Spec => ImplementsRoomBroadcast
BY StreamInvariance, AbstractInit, StepMaps, PTL
   DEF Spec, ImplementsRoomBroadcast, Abstract!Spec
===============================================================================
