------------------------------ MODULE ChatServer ------------------------------
(***************************************************************************)
(* The multithreaded chat server of csf_assign05 (server.cpp, room.cpp,    *)
(* user.h, guard.h): one detached worker thread per accepted connection,   *)
(* receivers that join a room and wait for messages, senders that          *)
(* broadcast to a room.  The workers share the map of rooms (Server::m_lock*)
(* guards it), the member set of every room (Room::lock) and the queue in  *)
(* every receiver's User, which broadcasters fill and whose semaphore they *)
(* post after they left the queue's own critical section.                  *)
(*                                                                         *)
(* A critical section in which the thread touches nothing else is one      *)
(* step, guarded by its lock; those of find_or_create_room and of          *)
(* broadcast_message span several.  A queue is what MessageQueue shows it  *)
(* to be, with the push and the post still apart, since the User may be    *)
(* freed between them.  Names of users and the texts of replies are left   *)
(* out; a message is its sender and its text.                              *)
(***************************************************************************)
EXTENDS Naturals, Sequences, FiniteSets

CONSTANTS Workers,      \* the connections, each served by one worker
          Names,        \* valid room names
          Texts,        \* what senders say
          Overlong,     \* texts too long to be delivered (Message::MAX_LEN)
          MaxRequests,  \* bound: join and sendall requests of the senders
          Null          \* no lock holder, no room, no pointer

\* A message: who sent it and what it says.
Messages == Workers \X Texts
TextOf(m) == m[2]

\* A Room object: its name and the worker that allocated it.
Rooms == Names \X Workers
RoomName(o) == o[1]

ASSUME WorkersAssumption == IsFiniteSet(Workers)
ASSUME OverlongAssumption == Overlong \subseteq Texts
ASSUME MaxRequestsAssumption == MaxRequests \in Nat
ASSUME NullAssumption == Null \notin Workers \cup Names \cup Rooms \cup Messages

VARIABLES
  pc,         \* the next step of each worker
  role,       \* what the client logged in as
  gone,       \* whether the client closed its end of the connection
  user,       \* the User object of each worker: "none", "live" or "freed"
  name,       \* the argument of find_or_create_room
  room,       \* the receiver's room, the sender's current_room
  m_rooms,    \* Server: the room of each name
  m_lock,     \* Server: the holder of the mutex of m_rooms
  members,    \* Room: the workers whose User is in the set
  lock,       \* Room: the holder of the mutex
  queue,      \* User: the deque of the message queue
  avail,      \* User: its semaphore
  hand,       \* the dequeued message (as a sequence) not written yet
  msg,        \* what a sender is broadcasting
  visited,    \* the members its loop has been to, cur included
  cur,        \* the member it is at
  requests,   \* how many requests the senders have made
  log,        \* history: what was broadcast to each Room object
  joined,     \* history: the length of that log when add_member ran
  wire        \* history: the deliveries written to each connection

server == <<m_rooms, m_lock>>
session == <<role, gone, name, requests>>
roomVars == <<members, lock, log>>
loop == <<msg, visited, cur>>
stream == <<queue, avail, hand, joined, wire>>
vars == <<pc, session, user, room, server, roomVars, loop, stream>>

Init ==
  /\ pc = [w \in Workers |-> "offline"]
  /\ role = [w \in Workers |-> "none"]
  /\ gone = [w \in Workers |-> FALSE]
  /\ user = [w \in Workers |-> "none"]
  /\ name = [w \in Workers |-> Null]
  /\ room = [w \in Workers |-> Null]
  /\ m_rooms = [n \in Names |-> Null]
  /\ m_lock = Null
  /\ members = [o \in Rooms |-> {}]
  /\ lock = [o \in Rooms |-> Null]
  /\ queue = [w \in Workers |-> <<>>]
  /\ avail = [w \in Workers |-> 0]
  /\ hand = [w \in Workers |-> <<>>]
  /\ msg = [w \in Workers |-> Null]
  /\ visited = [w \in Workers |-> {}]
  /\ cur = [w \in Workers |-> Null]
  /\ requests = 0
  /\ log = [o \in Rooms |-> <<>>]
  /\ joined = [w \in Workers |-> 0]
  /\ wire = [w \in Workers |-> <<>>]

\* A definition marked "Bug" is no part of the model: it takes the place of the
\* one that follows it to see that the properties notice.
Step(w, from, to) == pc[w] = from /\ pc' = [pc EXCEPT ![w] = to]

\* A step that only moves on.
Move(w, from, to) ==
  /\ Step(w, from, to)
  /\ UNCHANGED <<session, user, room, server, roomVars, loop, stream>>

------------------------------------------------------------------------------
(* The main thread and the clients *)

\* accept returned a connection and the worker thread was created, or
\* pthread_create failed, which nobody notices.
Accept(w) == \E to \in {"login", "orphan"} : Move(w, "offline", to)

\* The client closes its end while a worker can still notice.
Disconnect(w) ==
  /\ pc[w] \notin {"offline", "orphan", "done"} /\ ~gone[w]
  /\ gone' = [gone EXCEPT ![w] = TRUE]
  /\ UNCHANGED <<pc, role, name, requests, user, room, server, roomVars, loop,
                 stream>>

------------------------------------------------------------------------------
(* worker: login and the end of a connection *)

\* End of file or a bad login; or the reply could not be sent, and the new
\* User was deleted before anyone else knew of it.
LoginFails(w) == Move(w, "login", "done")

Login(w, as) ==
  /\ Step(w, "login", IF as = "receiver" THEN "r_join" ELSE "s_chat")
  /\ role' = [role EXCEPT ![w] = as]
  /\ user' = [user EXCEPT ![w] = "live"]
  /\ UNCHANGED <<gone, name, requests, room, server, roomVars, loop, stream>>

\* Anything but a well formed join of a valid room.
ReceiverRefused(w) == Move(w, "r_join", "free")

ReceiverJoins(w, n) ==
  /\ Step(w, "r_join", "find")
  /\ name' = [name EXCEPT ![w] = n]
  /\ UNCHANGED <<role, gone, requests, user, room, server, roomVars, loop,
                 stream>>

\* delete user (its queue and the messages in it) and delete conn.
Delete(w) ==
  /\ Step(w, "free", "done")
  /\ user' = [user EXCEPT ![w] = "freed"]
  /\ queue' = [queue EXCEPT ![w] = <<>>]
  /\ avail' = [avail EXCEPT ![w] = 0]
  /\ UNCHANGED <<session, room, server, roomVars, loop, hand, joined, wire>>

------------------------------------------------------------------------------
(* Server::find_or_create_room, under m_lock *)

\* Bug: no Guard.
FindUnguarded(w) ==
  /\ Step(w, "find", "lookup")
  /\ m_lock' = w
  /\ UNCHANGED <<session, user, room, m_rooms, roomVars, loop, stream>>

FindLock(w) ==
  /\ Step(w, "find", "lookup")
  /\ m_lock = Null
  /\ m_lock' = w
  /\ UNCHANGED <<session, user, room, m_rooms, roomVars, loop, stream>>

FindMisses(w) == Move(w, "lookup", "create") /\ m_rooms[name[w]] = Null

\* Bug: an early return, and no Guard to unlock.
ReturnLocked(w, from, o) ==
  /\ Step(w, from, IF role[w] = "receiver" THEN "add" ELSE "reply")
  /\ room' = [room EXCEPT ![w] = o]
  /\ UNCHANGED <<m_lock, session, user, roomVars, loop, stream>>

\* Unlock and return the room to the caller.
Return(w, from, o) ==
  /\ Step(w, from, IF role[w] = "receiver" THEN "add" ELSE "reply")
  /\ room' = [room EXCEPT ![w] = o]
  /\ m_lock' = Null
  /\ UNCHANGED <<session, user, roomVars, loop, stream>>

FindReturns(w) ==
  /\ Return(w, "lookup", m_rooms[name[w]])
  /\ m_rooms[name[w]] # Null
  /\ UNCHANGED m_rooms

Create(w) ==
  /\ Return(w, "create", <<name[w], w>>)
  /\ m_rooms' = [m_rooms EXCEPT ![name[w]] = <<name[w], w>>]

FindOrCreateRoom(w) == FindLock(w) \/ FindMisses(w) \/ FindReturns(w) \/ Create(w)

------------------------------------------------------------------------------
(* worker, chat_with_receiver: the receiver's thread *)

\* Bug: no Guard.
AddUnguarded(w) ==
  LET o == room[w] IN
  /\ Step(w, "add", "join_ok")
  /\ members' = [members EXCEPT ![o] = @ \cup {w}]
  /\ joined' = [joined EXCEPT ![w] = Len(log[o])]
  /\ UNCHANGED <<session, user, room, server, lock, log, loop, queue, avail,
                 hand, wire>>

AddMember(w) ==
  LET o == room[w] IN
  /\ Step(w, "add", "join_ok")
  /\ lock[o] = Null
  /\ members' = [members EXCEPT ![o] = @ \cup {w}]
  /\ joined' = [joined EXCEPT ![w] = Len(log[o])]
  /\ UNCHANGED <<session, user, room, server, lock, log, loop, queue, avail,
                 hand, wire>>

\* Bug: the error path forgets remove_member.
JoinOkForgets(w) == \/ Move(w, "join_ok", "dequeue")
                    \/ gone[w] /\ Move(w, "join_ok", "free")

\* A write fails only once the client is gone, and then not always at once.
JoinOk(w) == \/ Move(w, "join_ok", "dequeue")
             \/ gone[w] /\ Move(w, "join_ok", "remove")

\* A dequeue that times out is retried: no change.
Dequeue(w) ==
  /\ Step(w, "dequeue", "send")
  /\ avail[w] > 0
  /\ avail' = [avail EXCEPT ![w] = @ - 1]
  /\ hand' = [hand EXCEPT ![w] = <<Head(queue[w])>>]
  /\ queue' = [queue EXCEPT ![w] = Tail(@)]
  /\ UNCHANGED <<session, user, room, server, roomVars, loop, joined, wire>>

Deliver(w) ==
  /\ Step(w, "send", "dequeue")
  /\ TextOf(Head(hand[w])) \notin Overlong
  /\ wire' = [wire EXCEPT ![w] = @ \o hand[w]]
  /\ hand' = [hand EXCEPT ![w] = <<>>]
  /\ UNCHANGED <<session, user, room, server, roomVars, loop, queue, avail,
                 joined>>

\* conn->send returned false: the connection broke, or send itself refused
\* the delivery because it does not fit in MAX_LEN bytes.
DeliverFails(w) ==
  /\ Step(w, "send", "remove")
  /\ gone[w] \/ TextOf(Head(hand[w])) \in Overlong
  /\ hand' = [hand EXCEPT ![w] = <<>>]
  /\ UNCHANGED <<session, user, room, server, roomVars, loop, queue, avail,
                 joined, wire>>

\* Bug: no Guard.
RemoveUnguarded(w) ==
  LET o == room[w] IN
  /\ Step(w, "remove", "free")
  /\ members' = [members EXCEPT ![o] = @ \ {w}]
  /\ UNCHANGED <<session, user, room, server, lock, log, loop, stream>>

RemoveMember(w) ==
  LET o == room[w] IN
  /\ Step(w, "remove", "free")
  /\ lock[o] = Null
  /\ members' = [members EXCEPT ![o] = @ \ {w}]
  /\ UNCHANGED <<session, user, room, server, lock, log, loop, stream>>

------------------------------------------------------------------------------
(* chat_with_sender: the sender's thread *)

\* Bug: chat_with_sender takes end of file for one more invalid message.
EndOfInputIgnored(w) ==
  gone[w] /\ (Move(w, "r_join", "free") \/ Move(w, "login", "done"))

\* End of file or a broken connection.
EndOfInput(w) ==
  /\ gone[w]
  /\ \/ Move(w, "s_chat", "free")
     \/ Move(w, "r_join", "free")
     \/ Move(w, "login", "done")

Quit(w) == Move(w, "s_chat", "free")

\* A malformed, unknown or impossible request is answered with an error.
Refuse(w) == Move(w, "s_chat", "reply")

SenderJoins(w, n) ==
  /\ Step(w, "s_chat", "find")
  /\ requests < MaxRequests
  /\ requests' = requests + 1
  /\ name' = [name EXCEPT ![w] = n]
  /\ UNCHANGED <<role, gone, user, room, server, roomVars, loop, stream>>

SenderLeaves(w) ==
  /\ Step(w, "s_chat", "reply")
  /\ room[w] # Null
  /\ room' = [room EXCEPT ![w] = Null]
  /\ UNCHANGED <<session, user, server, roomVars, loop, stream>>

SendAll(w, t) ==
  /\ Step(w, "s_chat", "b_lock")
  /\ room[w] # Null
  /\ requests < MaxRequests
  /\ requests' = requests + 1
  /\ msg' = [msg EXCEPT ![w] = <<w, t>>]
  /\ UNCHANGED <<role, gone, name, user, room, server, roomVars, visited, cur,
                 stream>>

Reply(w) == Move(w, "reply", "s_chat") \/ (gone[w] /\ Move(w, "reply", "free"))

------------------------------------------------------------------------------
(* Room::broadcast_message, under the room's lock *)

BroadcastLock(w) ==
  LET o == room[w] IN
  /\ Step(w, "b_lock", "b_next")
  /\ lock[o] = Null
  /\ lock' = [lock EXCEPT ![o] = w]
  /\ log' = [log EXCEPT ![o] = Append(@, msg[w])]
  /\ UNCHANGED <<session, user, room, server, members, loop, stream>>

\* Bug: the loop starts over.
BroadcastAgain(w, u) ==
  /\ Step(w, "b_next", "b_push")
  /\ u \in members[room[w]]
  /\ cur' = [cur EXCEPT ![w] = u]
  /\ visited' = [visited EXCEPT ![w] = @ \cup {u}]
  /\ UNCHANGED <<session, user, room, server, roomVars, msg, stream>>

\* The set is ordered by address: to the model, any order.
BroadcastNext(w, u) ==
  /\ Step(w, "b_next", "b_push")
  /\ u \in members[room[w]] \ visited[w]
  /\ cur' = [cur EXCEPT ![w] = u]
  /\ visited' = [visited EXCEPT ![w] = @ \cup {u}]
  /\ UNCHANGED <<session, user, room, server, roomVars, msg, stream>>

BroadcastPush(w) ==
  /\ Step(w, "b_push", "b_post")
  /\ queue' = [queue EXCEPT ![cur[w]] = Append(@, msg[w])]
  /\ UNCHANGED <<session, user, room, server, roomVars, loop, avail, hand,
                 joined, wire>>

\* Bug: the semaphore is posted only for a queue that was empty.
PostIfEmpty(w) ==
  /\ Step(w, "b_post", "b_next")
  /\ avail' = [avail EXCEPT ![cur[w]] = IF Len(queue[cur[w]]) = 1 THEN @ + 1 ELSE @]
  /\ UNCHANGED <<session, user, room, server, roomVars, loop, queue, hand,
                 joined, wire>>

BroadcastPost(w) ==
  /\ Step(w, "b_post", "b_next")
  /\ avail' = [avail EXCEPT ![cur[w]] = @ + 1]
  /\ UNCHANGED <<session, user, room, server, roomVars, loop, queue, hand,
                 joined, wire>>

\* Bug: no Guard to unlock.
BroadcastLocked(w) ==
  /\ Step(w, "b_next", "reply")
  /\ members[room[w]] \subseteq visited[w]
  /\ msg' = [msg EXCEPT ![w] = Null]
  /\ cur' = [cur EXCEPT ![w] = Null]
  /\ visited' = [visited EXCEPT ![w] = {}]
  /\ UNCHANGED <<session, user, room, server, roomVars, stream>>

BroadcastUnlock(w) ==
  LET o == room[w] IN
  /\ Step(w, "b_next", "reply")
  /\ members[o] \subseteq visited[w]
  /\ lock' = [lock EXCEPT ![o] = Null]
  /\ msg' = [msg EXCEPT ![w] = Null]
  /\ cur' = [cur EXCEPT ![w] = Null]
  /\ visited' = [visited EXCEPT ![w] = {}]
  /\ UNCHANGED <<session, user, room, server, members, log, stream>>

Broadcast(w) == \/ BroadcastLock(w)
                \/ \E u \in Workers : BroadcastNext(w, u)
                \/ BroadcastPush(w)
                \/ BroadcastPost(w)
                \/ BroadcastUnlock(w)

------------------------------------------------------------------------------
\* What a worker does without waiting for its client to say something.
Run(w) == \/ FindOrCreateRoom(w)
          \/ AddMember(w) \/ JoinOk(w)
          \/ Dequeue(w) \/ Deliver(w) \/ DeliverFails(w) \/ RemoveMember(w)
          \/ Broadcast(w) \/ Reply(w)
          \/ Delete(w)

Request(w) == \/ LoginFails(w)
              \/ \E as \in {"receiver", "sender"} : Login(w, as)
              \/ ReceiverRefused(w)
              \/ \E n \in Names : ReceiverJoins(w, n) \/ SenderJoins(w, n)
              \/ Quit(w) \/ Refuse(w) \/ SenderLeaves(w)
              \/ \E t \in Texts : SendAll(w, t)

Next == \E w \in Workers : \/ Accept(w) \/ Disconnect(w)
                           \/ Request(w) \/ EndOfInput(w) \/ Run(w)

Spec == Init /\ [][Next]_vars

\* A thread that can run eventually does; a client that closed its end left
\* finitely many requests behind, after which the worker reads end of file.
\* Clients read what they are sent, and are not obliged to ask for anything.
Fairness == \A w \in Workers : WF_vars(Run(w)) /\ SF_vars(EndOfInput(w))

FairSpec == Spec /\ Fairness
===============================================================================
