---------------------------- MODULE ChatProperties ----------------------------
(* What should be true of the chat server of csf_assign05 at every step, and *)
(* what must happen in the end.                                              *)
EXTENDS ChatServer

FindSteps == {"find", "lookup", "create"}
BroadcastSteps == {"b_lock", "b_next", "b_push", "b_post"}
ReceiverSteps == {"r_join", "add", "join_ok", "dequeue", "send", "remove"}
SenderSteps == {"s_chat", "reply"} \cup BroadcastSteps
Steps == {"offline", "orphan", "login", "free", "done"} \cup FindSteps
         \cup ReceiverSteps \cup SenderSteps

\* Every variable keeps to its values; in particular no semaphore is
\* decremented below zero.
TypeOK ==
  /\ pc \in [Workers -> Steps]
  /\ role \in [Workers -> {"none", "receiver", "sender"}]
  /\ gone \in [Workers -> BOOLEAN]
  /\ user \in [Workers -> {"none", "live", "freed"}]
  /\ name \in [Workers -> Names \cup {Null}]
  /\ room \in [Workers -> Rooms \cup {Null}]
  /\ m_rooms \in [Names -> Rooms \cup {Null}]
  /\ m_lock \in Workers \cup {Null}
  /\ members \in [Rooms -> SUBSET Workers]
  /\ lock \in [Rooms -> Workers \cup {Null}]
  /\ queue \in [Workers -> Seq(Messages)]
  /\ avail \in [Workers -> Nat]
  /\ hand \in [Workers -> Seq(Messages)]
  /\ msg \in [Workers -> Messages \cup {Null}]
  /\ visited \in [Workers -> SUBSET Workers]
  /\ cur \in [Workers -> Workers \cup {Null}]
  /\ requests \in Nat
  /\ log \in [Rooms -> Seq(Messages)]
  /\ joined \in [Workers -> Nat]
  /\ wire \in [Workers -> Seq(Messages)]

------------------------------------------------------------------------------
(* Rooms *)

\* find_or_create_room returns "the unique Room object representing the named
\* chat room": clients that named the same room, at whatever time, hold the
\* same object, the one the map still has.
RoomUnique ==
  \A w \in Workers : room[w] # Null => m_rooms[RoomName(room[w])] = room[w]

\* A receiver's User is in a room exactly from the return of add_member to
\* that of remove_member, and in no room but its own.
MembershipExact ==
  \A w \in Workers, o \in Rooms :
    w \in members[o] <=>
      room[w] = o /\ pc[w] \in {"join_ok", "dequeue", "send", "remove"}

\* broadcast_message never follows a pointer to a User its own thread has
\* deleted, not even at the sem_post after the message is in the queue (and
\* may be delivered already): the member cannot get past remove_member.
NoUseAfterFree ==
  \A w \in Workers : pc[w] \in {"b_push", "b_post"} => user[cur[w]] = "live"

\* The mutex of a room is held by the worker inside broadcast_message's loop
\* and by nobody else, and never leaks out of it.
RoomLockExact ==
  \A o \in Rooms, w \in Workers :
    lock[o] = w <=> room[w] = o /\ pc[w] \in {"b_next", "b_push", "b_post"}

------------------------------------------------------------------------------
(* Streams *)

\* A broadcast of o under way whose message is not in the queue of w yet.
Pending(w, o) ==
  \E b \in Workers : /\ lock[o] = b
                     /\ w \notin visited[b] \/ (pc[b] = "b_push" /\ cur[b] = w)

\* How much of the log of o was handed to w.
Handed(w, o) == Len(log[o]) - (IF Pending(w, o) THEN 1 ELSE 0)

\* Written, dequeued and queued together are exactly what was broadcast to the
\* room since the member joined, in that order: nothing is lost, repeated or
\* swapped by the threads that push, post, take and write at the same time.
StreamExact ==
  \A o \in Rooms : \A w \in members[o] :
    pc[w] # "remove" =>
      wire[w] \o hand[w] \o queue[w] = SubSeq(log[o], joined[w] + 1, Handed(w, o))

\* The broadcasts that are about to post the semaphore of w.
Posting(w) == {b \in Workers : pc[b] = "b_post" /\ cur[b] = w}

\* The semaphore counts the queue, but for a post that is still to come.
AvailExact ==
  \A w \in Workers : Len(queue[w]) = avail[w] + Cardinality(Posting(w))

\* The server as its clients see it: the rooms by name, who is in them, and
\* what each connection was sent.  A receiver is out as soon as its worker
\* gives up on it, though the User stays in the set a little longer.
IsMember(w) == pc[w] \in {"join_ok", "dequeue", "send"}

Abstract == INSTANCE RoomBroadcast WITH
  Receivers <- Workers,
  Nowhere <- Null,
  log <- [n \in Names |-> IF m_rooms[n] = Null THEN <<>> ELSE log[m_rooms[n]]],
  where <- [w \in Workers |-> IF IsMember(w) THEN RoomName(room[w]) ELSE Null],
  since <- joined

\* Whatever the workers do, clients see rooms that broadcast in one order.
ImplementsRoomBroadcast == Abstract!Spec

\* ... and a member is sent what it is owed, or dropped.
OwedIsSentOrDropped == Abstract!Fairness

------------------------------------------------------------------------------
(* Progress *)

\* A join or a sendall is answered, or the client was lost on the way: no
\* worker waits forever for m_lock, for a room or for a queue.
RequestsAnswered ==
  \A w \in Workers : pc[w] \in {"find", "b_lock"}
                     ~> pc[w] \in {"s_chat", "dequeue", "free", "done"}

\* The worker of a receiver it could not write to removes and deletes the
\* User, whoever broadcasts to the room in the meantime.
DroppedIsFreed ==
  \A w \in Workers : pc[w] = "remove" ~> pc[w] = "done" /\ user[w] = "freed"

\* A sender that hangs up, whatever it was in the middle of, is cleaned up.
GoneSenderIsFreed ==
  \A w \in Workers : gone[w] /\ role[w] = "sender" ~> user[w] = "freed"

------------------------------------------------------------------------------
(* What the comments and the report say, and the code does not do *)

\* README.txt, Room: "all current members receive the message without an
\* error".  A member that is still connected is not dropped.
DroppedOnlyIfGone ==
  [][\A w \in Workers : pc[w] = "send" /\ pc'[w] = "remove" => gone[w]]_vars

\* server.cpp, chat_with_receiver: "remove user from room upon disconnecting".
GoneReceiverIsRemoved ==
  \A w \in Workers :
    gone[w] /\ IsMember(w) ~> \A o \in Rooms : w \notin members[o]
===============================================================================
