------------------------------ MODULE ChatSession ------------------------------
(***************************************************************************)
(* The two client programs of csf_assign05 (sender.cpp, receiver.cpp,      *)
(* client_util.cpp) at work with the server: what users type becomes       *)
(* requests, requests are answered, and what is said in a room is shown by *)
(* the receivers in it.  Each direction of a connection is a queue of      *)
(* messages, which Connection shows it to be, and the end of it.  The      *)
(* server (server.cpp) is the conversation of each worker with its client; *)
(* a request is handled in one step, and what goes on between the workers  *)
(* meanwhile is the business of ChatServer.                                *)
(*                                                                         *)
(* A text is a sequence of words; MAX_LEN counts words.  A message that    *)
(* the end of its writer cut off (see Connection) is left out, and so are  *)
(* programs other than these two.                                          *)
(***************************************************************************)
EXTENDS MessageFormat

CONSTANTS Senders, Receivers,  \* the processes of the two programs
          Typed,               \* the lines that users type
          Alnum,               \* the words of letters and digits
          Nowhere,             \* no room: nullptr
          MaxTyped             \* bound: lines typed

Clients == Senders \cup Receivers

ASSUME ClientsAssumption == Senders \cap Receivers = {}

VARIABLES
  cpc,      \* where each client is in main
  copen,    \* whether its end of the connection is open
  asked,    \* the request it waits for the answer of
  shown,    \* history: the deliveries a receiver displayed
  typed,    \* how many lines were typed
  up, down, \* the messages on their way to the server and from it
  alive,    \* whether the server runs
  wpc,      \* where the worker of each connection is
  sopen,    \* whether the server's end of the connection is open
  room,     \* the sender's current_room, the receiver's room
  queue,    \* the message queue of each receiver's User
  log,      \* history: what was broadcast to each room
  since     \* history: the length of that log when a receiver joined

client == <<cpc, copen, asked, shown, typed>>
rooms == <<room, queue, log, since>>
server == <<alive, wpc, sopen, rooms>>
vars == <<client, up, down, server>>

\* is_valid_name
IsValidName(text) == text # <<>> /\ \A i \in DOMAIN text : text[i] \in Alnum

\* Names are one word.  A user's name is that of its process, and is what its
\* program was given, unless it was given no name at all.
Name(c) == <<c>>
RoomNames == {<<w>> : w \in Alnum}
BadName == <<>>

ASSUME NamesAssumption == Colon \notin Alnum /\ Nowhere \notin RoomNames

Message(tag, data) == [tag |-> <<tag>>, data |-> data]
Tag(m) == m.tag[1]
Ok(text) == Message("ok", <<text>>)
Err(text) == Message("err", <<text>>)

Init ==
  /\ cpc = [c \in Clients |-> "start"]
  /\ copen = [c \in Clients |-> FALSE]
  /\ asked = [c \in Clients |-> "none"]
  /\ shown = [c \in Receivers |-> <<>>]
  /\ typed = 0
  /\ up = [c \in Clients |-> <<>>]
  /\ down = [c \in Clients |-> <<>>]
  /\ alive = TRUE
  /\ wpc = [c \in Clients |-> "none"]
  /\ sopen = [c \in Clients |-> FALSE]
  /\ room = [c \in Clients |-> Nowhere]
  /\ queue = [c \in Receivers |-> <<>>]
  /\ log = [n \in RoomNames |-> <<>>]
  /\ since = [c \in Receivers |-> 0]

------------------------------------------------------------------------------
(* The client programs: connection, requests and replies *)

\* return from main: the Connection is closed.  A client that is killed does
\* the same at any time.
Exits(c, status) ==
  /\ cpc' = [cpc EXCEPT ![c] = status]
  /\ copen' = [copen EXCEPT ![c] = FALSE]

Goes(c, to) == cpc' = [cpc EXCEPT ![c] = to] /\ UNCHANGED copen

\* The request is written, and the client calls receive.
Sends(c, m) ==
  /\ up' = [up EXCEPT ![c] = Append(@, m)]
  /\ asked' = [asked EXCEPT ![c] = Tag(m)]
  /\ cpc' = [cpc EXCEPT ![c] = "await"]

\* open_clientfd finds no server, or the login cannot be sent.
ConnectFails(c) ==
  /\ cpc[c] = "start"
  /\ Exits(c, "failed")
  /\ UNCHANGED <<asked, shown, typed, up, down, server>>

\* connect, and the login with the name that was given.
Connects(c, name) ==
  /\ cpc[c] = "start" /\ alive
  /\ copen' = [copen EXCEPT ![c] = TRUE]
  /\ sopen' = [sopen EXCEPT ![c] = TRUE]
  /\ Sends(c, Message(IF c \in Senders THEN "slogin" ELSE "rlogin", name))
  /\ UNCHANGED <<shown, typed, down, alive, wpc, rooms>>

\* receive returns true and takes the next message.
Receives(c) ==
  /\ down[c] # <<>>
  /\ down' = [down EXCEPT ![c] = Tail(@)]

\* receive returns false: there is no more, and the server's end is closed.
FindsEnd(c) == copen[c] /\ down[c] = <<>> /\ ~sopen[c]

Joining == {"rlogin", "slogin"}

\* An answer to a login or to a receiver's join that is not ok ends the client.
IsRefused(c) == /\ Tag(Head(down[c])) # "ok"
                /\ c \in Receivers \/ asked[c] \in Joining
Refused(c) ==
  /\ cpc[c] = "await" /\ Receives(c) /\ IsRefused(c)
  /\ Exits(c, "failed")
  /\ UNCHANGED <<asked, shown, typed, up, server>>

\* A receiver that is logged in joins its room.
ReceiverJoins(c, name) ==
  /\ cpc[c] = "await" /\ asked[c] = "rlogin" /\ Receives(c) /\ ~IsRefused(c)
  /\ Sends(c, Message("join", name))
  /\ UNCHANGED <<copen, shown, typed, server>>

\* Any other answer, also an err to a sender's request, lets the client go on;
\* after quit it returns.
Answered(c) ==
  /\ cpc[c] = "await" /\ asked[c] # "rlogin" /\ Receives(c) /\ ~IsRefused(c)
  /\ IF asked[c] = "quit" THEN Exits(c, "done")
     ELSE Goes(c, IF c \in Receivers THEN "listen" ELSE "prompt")
  /\ UNCHANGED <<asked, shown, typed, up, server>>

\* No answer: the server may close its end at once after quit, but not before.
Unanswered(c) ==
  /\ cpc[c] = "await" /\ FindsEnd(c)
  /\ Exits(c, IF asked[c] = "quit" THEN "done" ELSE "failed")
  /\ UNCHANGED <<asked, shown, typed, up, down, server>>

Killed(c) ==
  /\ copen[c]
  /\ Exits(c, "killed")
  /\ UNCHANGED <<asked, shown, typed, up, down, server>>

------------------------------------------------------------------------------
(* The sender: lines of its user *)

Blank == " "
Words(l) == {i \in DOMAIN l : l[i] # Blank}
Trim(l) ==
  IF Words(l) = {} THEN <<>>
  ELSE SubSeq(l, CHOOSE i \in Words(l) : \A j \in Words(l) : i <= j,
                 CHOOSE i \in Words(l) : \A j \in Words(l) : i >= j)

\* The request for a line that was trimmed.  Something follows "/join " then,
\* so that the test for an empty name of a room is never true: without a name
\* the line is one to say.
Command(t) ==
  IF t = <<"/quit">> THEN Message("quit", <<>>)
  ELSE IF t = <<"/leave">> THEN Message("leave", <<>>)
  ELSE IF Len(t) > 1 /\ t[1] = "/join" /\ t[2] = Blank
  THEN Message("join", Trim(SubSeq(t, 3, Len(t))))
  ELSE Message("sendall", t)

\* Lines are sequences of words, and so much of a line as is a name is one word.
ASSUME TypedAssumption ==
  \A l \in Typed :
    /\ l \in Seq({l[i] : i \in DOMAIN l})
    /\ LET m == Command(Trim(l))
       IN  Tag(m) = "join" /\ IsValidName(m.data) => m.data \in RoomNames

Types(c) == /\ cpc[c] = "prompt" /\ typed < MaxTyped
            /\ typed' = typed + 1

TypesNothing(c, l) ==
  /\ Types(c) /\ Trim(l) = <<>>
  /\ UNCHANGED <<cpc, copen, asked, shown, up, down, server>>

Requests(c, l) ==
  /\ Types(c) /\ Trim(l) # <<>> /\ Fits(Command(Trim(l)))
  /\ Sends(c, Command(Trim(l)))
  /\ UNCHANGED <<copen, shown, down, server>>

\* A line that is too long ends the client, as a connection that is lost may.
RequestFails(c, l) ==
  /\ Types(c) /\ Trim(l) # <<>>
  /\ ~Fits(Command(Trim(l))) \/ ~sopen[c]
  /\ Exits(c, "failed")
  /\ UNCHANGED <<asked, shown, up, down, server>>

EndOfInput(c) ==
  /\ cpc[c] = "prompt"
  /\ Exits(c, "done")
  /\ UNCHANGED <<asked, shown, typed, up, down, server>>

------------------------------------------------------------------------------
(* The receiver: deliveries *)

\* Bug: the sender ends at the last colon.
LastColon(payload) ==
  LET ends == {i \in DOMAIN payload : payload[i] = Colon}
      last == CHOOSE i \in ends : \A j \in ends : i >= j
      first == First(payload, Colon)
  IN  [from |-> SubSeq(payload, first + 1, last - 1),
       text |-> SubSeq(payload, last + 1, Len(payload))]

\* Between the colons of room:sender:text.
Parsed(payload) ==
  LET said == After(payload, Colon)
  IN  [from |-> Before(said, Colon), text |-> After(said, Colon)]

\* Every delivery has two colons at least.
Shows(c) ==
  /\ cpc[c] = "listen" /\ Receives(c)
  /\ shown' = [shown EXCEPT ![c] = Append(@, Parsed(Head(down[c]).data))]
  /\ UNCHANGED <<cpc, copen, asked, typed, up, server>>

Ends(c) ==
  /\ cpc[c] = "listen" /\ FindsEnd(c)
  /\ Exits(c, "done")
  /\ UNCHANGED <<asked, shown, typed, up, down, server>>

------------------------------------------------------------------------------
(* The server *)

\* accept, and the worker, if pthread_create made one.
Accepts(c, step) ==
  /\ wpc[c] = "none" /\ sopen[c]
  /\ wpc' = [wpc EXCEPT ![c] = step]
  /\ UNCHANGED <<client, up, down, alive, sopen, rooms>>

\* The worker reads a request, ...
Reads(c, at) == /\ wpc[c] = at /\ up[c] # <<>>
                /\ up' = [up EXCEPT ![c] = Tail(@)]
Asks(c, tag) == Tag(Head(up[c])) = tag
Argument(c) == Head(up[c]).data

\* ... answers it and does the next step; "closed" is its end.  An answer to a
\* client that is gone is lost, whether it could be written or not, and the
\* worker ends then or when it reads end of file.
Answers(c, answer, next) ==
  /\ down' = [down EXCEPT ![c] = Append(@, answer)]
  /\ wpc' = [wpc EXCEPT ![c] = next]
  /\ sopen' = [sopen EXCEPT ![c] = next # "closed"]
  /\ UNCHANGED <<client, alive>>

LoginRefused(c) ==
  /\ Reads(c, "login") /\ ~IsValidName(Argument(c))
  /\ Answers(c, Err("Invalid username"), "closed")
  /\ UNCHANGED rooms

LoggedIn(c) ==
  /\ Reads(c, "login") /\ IsValidName(Argument(c))
  /\ \/ Asks(c, "slogin") /\ Answers(c, Ok("Logged in as sender"), "s_chat")
     \/ Asks(c, "rlogin") /\ Answers(c, Ok("Logged in as receiver"), "r_join")
  /\ UNCHANGED rooms

ReceiverRefused(c) ==
  /\ Reads(c, "r_join") /\ ~IsValidName(Argument(c))
  /\ Answers(c, Err("Invalid room name"), "closed")
  /\ UNCHANGED rooms

\* add_member.  since is that of receivers that are still there.
ReceiverJoined(c) ==
  /\ Reads(c, "r_join") /\ IsValidName(Argument(c))
  /\ Answers(c, Ok("Joined room"), "r_wait")
  /\ room' = [room EXCEPT ![c] = Argument(c)]
  /\ since' = [since EXCEPT ![c] = IF copen[c] THEN Len(log[Argument(c)]) ELSE @]
  /\ UNCHANGED <<queue, log>>

Members(n) == {r \in Receivers : wpc[r] = "r_wait" /\ room[r] = n}

\* chat_with_sender: sendall, with broadcast_message.
Said(c) ==
  /\ Reads(c, "s_chat") /\ Asks(c, "sendall") /\ room[c] # Nowhere
  /\ Answers(c, Ok("Message sent"), "s_chat")
  /\ LET said == [from |-> Name(c), text |-> Argument(c)] IN
     /\ log' = [log EXCEPT ![room[c]] = Append(@, said)]
     /\ queue' = [r \in Receivers |-> IF r \in Members(room[c]) THEN Append(queue[r], said)
                                      ELSE queue[r]]
  /\ UNCHANGED <<room, since>>

SenderJoined(c) ==
  /\ Reads(c, "s_chat") /\ Asks(c, "join") /\ IsValidName(Argument(c))
  /\ Answers(c, Ok("Joined room"), "s_chat")
  /\ room' = [room EXCEPT ![c] = Argument(c)]
  /\ UNCHANGED <<queue, log, since>>

Left(c) ==
  /\ Reads(c, "s_chat") /\ Asks(c, "leave") /\ room[c] # Nowhere
  /\ Answers(c, Ok("Left room"), "s_chat")
  /\ room' = [room EXCEPT ![c] = Nowhere]
  /\ UNCHANGED <<queue, log, since>>

NeedsRoom(c) == Asks(c, "sendall") \/ Asks(c, "leave")

\* Bug: continue, and no answer.
NotAnswered(c) ==
  /\ Reads(c, "s_chat") /\ NeedsRoom(c) /\ room[c] = Nowhere
  /\ UNCHANGED <<client, down, server>>

\* What cannot be done is answered with an error.
RequestRefused(c) ==
  /\ Reads(c, "s_chat")
  /\ \/ NeedsRoom(c) /\ room[c] = Nowhere /\ Answers(c, Err("Not in a room"), "s_chat")
     \/ /\ Asks(c, "join") /\ ~IsValidName(Argument(c))
        /\ Answers(c, Err("Invalid room name"), "s_chat")
  /\ UNCHANGED rooms

QuitAnswered(c) ==
  /\ Reads(c, "s_chat") /\ Asks(c, "quit")
  /\ Answers(c, Ok("Goodbye"), "closed")
  /\ UNCHANGED rooms

\* End of file while a request is waited for.
ReadsEnd(c) ==
  /\ wpc[c] \in {"login", "r_join", "s_chat"} /\ up[c] = <<>> /\ ~copen[c]
  /\ wpc' = [wpc EXCEPT ![c] = "closed"]
  /\ sopen' = [sopen EXCEPT ![c] = FALSE]
  /\ UNCHANGED <<client, up, down, alive, rooms>>

Delivery(r) ==
  LET said == Head(queue[r])
  IN  Message("delivery", room[r] \o <<Colon>> \o said.from \o <<Colon>> \o said.text)

Dequeues(r) == /\ wpc[r] = "r_wait" /\ queue[r] # <<>>
               /\ queue' = [queue EXCEPT ![r] = Tail(@)]

\* chat_with_receiver.
Delivers(r) ==
  /\ Dequeues(r) /\ Fits(Delivery(r))
  /\ down' = [down EXCEPT ![r] = Append(@, Delivery(r))]
  /\ UNCHANGED <<client, up, alive, wpc, sopen, room, log, since>>

\* Bug: the connection is not deleted.
DropsOnly(r) ==
  /\ Dequeues(r)
  /\ ~Fits(Delivery(r)) \/ ~copen[r]
  /\ wpc' = [wpc EXCEPT ![r] = "closed"]
  /\ UNCHANGED <<client, up, down, alive, sopen, room, log, since>>

\* A delivery that cannot be written, or is too long, ends the worker.
Drops(r) ==
  /\ Dequeues(r)
  /\ ~Fits(Delivery(r)) \/ ~copen[r]
  /\ wpc' = [wpc EXCEPT ![r] = "closed"]
  /\ sopen' = [sopen EXCEPT ![r] = FALSE]
  /\ UNCHANGED <<client, up, down, alive, room, log, since>>

\* The server is killed.  Of what it wrote, a client still reads all or, if its
\* own last message was not read, perhaps nothing.
Dies ==
  /\ alive
  /\ alive' = FALSE
  /\ wpc' = [c \in Clients |-> "closed"]
  /\ sopen' = [c \in Clients |-> FALSE]
  /\ \E lost \in SUBSET {c \in Clients : up[c] # <<>>} :
       down' = [c \in Clients |-> IF c \in lost THEN <<>> ELSE down[c]]
  /\ UNCHANGED <<client, up, rooms>>

------------------------------------------------------------------------------
Hears(c) == Refused(c) \/ Answered(c) \/ Unanswered(c)

RunsReceiver(c) == \/ Hears(c) \/ Shows(c) \/ Ends(c)
                   \/ \E n \in RoomNames \cup {BadName} : ReceiverJoins(c, n)

Serves(c) == \/ \E step \in {"login", "orphan"} : Accepts(c, step)
             \/ LoginRefused(c) \/ LoggedIn(c) \/ ReadsEnd(c)

ServesSender(c) == \/ Serves(c)
                   \/ Said(c) \/ SenderJoined(c) \/ Left(c) \/ RequestRefused(c)
                   \/ QuitAnswered(c)

ServesReceiver(c) == \/ Serves(c)
                     \/ ReceiverRefused(c) \/ ReceiverJoined(c)
                     \/ Delivers(c) \/ Drops(c)

Next ==
  \/ \E c \in Clients : \/ ConnectFails(c) \/ Killed(c)
                        \/ \E name \in {Name(c), BadName} : Connects(c, name)
  \/ \E c \in Senders : \/ Hears(c) \/ EndOfInput(c) \/ ServesSender(c)
                        \/ \E l \in Typed : TypesNothing(c, l) \/ Requests(c, l)
                                          \/ RequestFails(c, l)
  \/ \E c \in Receivers : RunsReceiver(c) \/ ServesReceiver(c)
  \/ Dies

Spec == Init /\ [][Next]_vars

\* Programs that can go on do; nobody has to type.
Fairness == /\ \A c \in Senders : WF_vars(Hears(c)) /\ WF_vars(ServesSender(c))
            /\ \A c \in Receivers : WF_vars(RunsReceiver(c)) /\ WF_vars(ServesReceiver(c))

FairSpec == Spec /\ Fairness

------------------------------------------------------------------------------
(* What should be true *)

\* What the server answers to a request.
OkTo == [slogin |-> "Logged in as sender", rlogin |-> "Logged in as receiver",
         join |-> "Joined room", leave |-> "Left room", sendall |-> "Message sent",
         quit |-> "Goodbye"]
ErrTo == [slogin |-> {"Invalid username"}, rlogin |-> {"Invalid username"},
          join |-> {"Invalid room name"}, leave |-> {"Not in a room"},
          sendall |-> {"Not in a room"}, quit |-> {}]
AnswersTo(tag) == {Ok(OkTo[tag])} \cup {Err(text) : text \in ErrTo[tag]}

\* The server will read what is on its way, unless it died.
IsServed(c) == sopen[c] \/ ~alive

\* A client that waits has one thing to wait for: its request is on its way and
\* will be read unless the server dies, or the answer is on its way, and that is
\* an answer to this request.  A sender that does not wait has all its answers
\* behind it and has not been hung up on.
Lockstep ==
  \A c \in Clients : copen[c] =>
    /\ cpc[c] = "await" =>
         \/ down[c] = <<>> /\ Len(up[c]) = 1 /\ Tag(up[c][1]) = asked[c] /\ IsServed(c)
         \/ up[c] = <<>> /\ down[c] # <<>> /\ down[c][1] \in AnswersTo(asked[c])
    /\ c \in Senders => Len(up[c]) + Len(down[c]) <= 1
    /\ cpc[c] = "prompt" => up[c] = <<>> /\ down[c] = <<>> /\ IsServed(c)

\* A receiver is in its room from add_member until it ends.
IsIn(r) == copen[r] /\ room[r] # Nowhere

Abstract == INSTANCE RoomBroadcast WITH
  Names <- RoomNames,
  Messages <- [from : {Name(c) : c \in Senders}, text : {Trim(l) : l \in Typed}],
  where <- [r \in Receivers |-> IF IsIn(r) THEN room[r] ELSE Nowhere],
  wire <- shown

\* What the users see is a broadcast by rooms: a receiver displays the lines that
\* senders typed in its room from when it joined, each whole, with its sender,
\* once and in the one order of the room.
ShownAsSaid == Abstract!Spec

\* What is said in a room is displayed by the receivers in it, or they end: a
\* receiver that the server gave up does not wait for more forever.
SaidIsShown == Abstract!Fairness

\* A client that sent a request goes on some day: it and its worker never wait
\* for each other.  The exception is a connection that was accepted when no
\* thread could be created; nobody reads from it and nobody closes it.
AnswersCome ==
  \A c \in Clients : cpc[c] = "await" ~> cpc[c] # "await" \/ wpc[c] = "orphan"
===============================================================================
