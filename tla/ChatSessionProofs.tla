--------------------------- MODULE ChatSessionProofs ---------------------------
(***************************************************************************)
(* Proofs about the clients at work with the server, for any clients, any  *)
(* lines that are typed, and any number of requests.  A client and its     *)
(* worker are tied by what is on its way between them (Paired): a request  *)
(* and a worker that will read it, or its answer and a worker that is      *)
(* where the client will expect it, and never both.  A step is about one   *)
(* of these pairs, and only the death of the server is about all.          *)
(*                                                                         *)
(* The second part follows what is said (RoomInv): it is in the log of its *)
(* room, and shown, on its way or queued, in this order, for each receiver *)
(* that joined (StreamAt), and comes out of a delivery as it went in       *)
(* (ParsedDelivery).  So every step is one of RoomBroadcast, or none.      *)
(***************************************************************************)
EXTENDS ChatSession, FiniteSetTheorems, SequenceTheorems, TLAPS

Requested(c) == IF c \in Senders THEN {"slogin", "join", "leave", "sendall", "quit"}
                ELSE {"rlogin", "join"}

\* The request that is waited for is on its way to a worker that will read it.
Reader(c) == IF asked[c] \in Joining THEN {"none", "login", "orphan"}
             ELSE IF c \in Receivers THEN {"r_join"} ELSE {"s_chat"}
Pending(c) ==
  /\ down[c] = <<>> /\ up[c] = <<Head(up[c])>>
  /\ Tag(Head(up[c])) = asked[c]
  /\ alive => sopen[c] /\ wpc[c] \in Reader(c)

\* The answer is on its way, and the worker is where the client will expect it.
\* A receiver's messages may come behind the answer to its join.
IsSequence(s) == s \in Seq({s[i] : i \in DOMAIN s})
Follows(c) ==
  /\ wpc[c] = "r_wait" => asked[c] = "join"
  /\ c \in Receivers /\ asked[c] = "rlogin" /\ Tag(Head(down[c])) = "ok"
       => sopen[c] /\ wpc[c] = "r_join"
  /\ c \in Senders /\ asked[c] # "quit" /\ (asked[c] = "slogin" => Tag(Head(down[c])) = "ok")
       => sopen[c] /\ wpc[c] = "s_chat"
Answering(c) ==
  /\ up[c] = <<>> /\ Head(down[c]) \in AnswersTo(asked[c])
  /\ IF c \in Receivers /\ asked[c] = "join"
     THEN IsSequence(down[c]) /\ down[c] # <<>>
     ELSE down[c] = <<Head(down[c])>>
  /\ alive => Follows(c)

\* One client and its worker.
Paired(c) ==
  /\ copen[c] <=> cpc[c] \in {"await", "prompt", "listen"}
  /\ cpc[c] = "start" => /\ up[c] = <<>> /\ down[c] = <<>>
                         /\ ~sopen[c] /\ (alive => wpc[c] = "none")
  /\ cpc[c] = "await" => asked[c] \in Requested(c) /\ (Pending(c) \/ Answering(c))
  /\ cpc[c] = "prompt" => /\ c \in Senders /\ up[c] = <<>> /\ down[c] = <<>>
                          /\ alive => sopen[c] /\ wpc[c] = "s_chat"
  /\ cpc[c] = "listen" => c \in Receivers
  /\ ~alive => ~sopen[c] /\ wpc[c] = "closed"

Shape ==
  /\ cpc \in [Clients -> {"start", "await", "prompt", "listen", "failed", "done", "killed"}]
  /\ copen \in [Clients -> BOOLEAN]
  /\ asked \in [Clients -> {"none", "slogin", "rlogin", "join", "leave", "sendall", "quit"}]
  /\ DOMAIN up = Clients /\ DOMAIN down = Clients
  /\ wpc \in [Clients -> {"none", "orphan", "login", "r_join", "r_wait", "s_chat", "closed"}]
  /\ sopen \in [Clients -> BOOLEAN]
  /\ alive \in BOOLEAN

Inv == Shape /\ \A c \in Clients : Paired(c)

------------------------------------------------------------------------------
(* Sequences and messages *)

\* A message that is appended leaves the first one first.
LEMMA AppendsBehind ==
  ASSUME NEW s, IsSequence(s), s # <<>>, NEW x
  PROVE  /\ IsSequence(Append(s, x)) /\ Append(s, x) # <<>>
         /\ Head(Append(s, x)) = Head(s) /\ Head(s) = s[1]
<1> DEFINE S == {s[i] : i \in DOMAIN s}
           T == S \cup {x}
           t == Append(s, x)
<1>1. s \in Seq(S) /\ s \in Seq(T) /\ x \in T
  BY SeqMonotonic DEF IsSequence
<1>2. /\ t \in Seq(T) /\ t # <<>> /\ Len(t) = Len(s) + 1
      /\ \A i \in 1..Len(s) : t[i] = s[i]
  BY <1>1, AppendProperties
<1>3. Len(s) \in Nat \ {0}
  BY <1>1, EmptySeq
<1>4. Head(s) = s[1] /\ Head(t) = t[1] /\ t[1] = s[1]
  BY <1>1, <1>2, <1>3
<1>5. IsSequence(t)
  <2> HIDE DEF t
  <2> DEFINE R == {t[i] : i \in DOMAIN t}
  <2>1. Len(t) \in Nat /\ DOMAIN t = 1..Len(t) /\ t \in [1..Len(t) -> T]
    BY <1>2, LenProperties
  <2>2. \A i \in 1..Len(t) : t[i] \in R
    BY <2>1
  <2>3. t \in [1..Len(t) -> R]
    <3> HIDE DEF R
    <3> QED
      BY <2>1, <2>2
  <2>4. t \in Seq(R)
    <3> HIDE DEF R
    <3> QED
      BY <2>1, <2>3, SeqDef
  <2> QED
    BY <2>4 DEF IsSequence
<1> QED
  BY <1>2, <1>4, <1>5

LEMMA Single ==
  ASSUME NEW x
  PROVE  /\ <<x>> # <<>> /\ Head(<<x>>) = x /\ Tail(<<x>>) = <<>> /\ Len(<<x>>) = 1
         /\ <<x>>[1] = x /\ Append(<<>>, x) = <<x>> /\ IsSequence(<<x>>)
<1>1. <<x>> \in Seq({<<x>>[i] : i \in DOMAIN <<x>>})
  <2>1. DOMAIN <<x>> = 1..1 /\ <<x>>[1] = x
    OBVIOUS
  <2>2. {<<x>>[i] : i \in DOMAIN <<x>>} = {x}
    BY <2>1
  <2> QED
    BY <2>2
<1> QED
  BY <1>1 DEF IsSequence

\* Requests and answers are told apart by their tags.
LEMMA Tags ==
  /\ \A text : Tag(Ok(text)) = "ok" /\ Tag(Err(text)) = "err"
  /\ \A tag, data : Tag(Message(tag, data)) = tag
BY DEF Tag, Ok, Err, Message

LEMMA AnswersAre ==
  /\ Ok("Logged in as sender") \in AnswersTo("slogin")
  /\ Ok("Logged in as receiver") \in AnswersTo("rlogin")
  /\ Err("Invalid username") \in AnswersTo("slogin")
  /\ Err("Invalid username") \in AnswersTo("rlogin")
  /\ Ok("Joined room") \in AnswersTo("join")
  /\ Err("Invalid room name") \in AnswersTo("join")
  /\ Ok("Left room") \in AnswersTo("leave")
  /\ Err("Not in a room") \in AnswersTo("leave")
  /\ Ok("Message sent") \in AnswersTo("sendall")
  /\ Err("Not in a room") \in AnswersTo("sendall")
  /\ Ok("Goodbye") \in AnswersTo("quit")
BY DEF AnswersTo, OkTo, ErrTo

\* What a line of the user becomes.
LEMMA CommandTags ==
  ASSUME NEW t
  PROVE  Tag(Command(t)) \in {"quit", "leave", "join", "sendall"}
BY Tags DEF Command

------------------------------------------------------------------------------
(* The steps *)

\* A step that is about one client leaves the others paired.
Touches(c) ==
  /\ alive' = alive
  /\ \A d \in Clients \ {c} :
       /\ cpc'[d] = cpc[d] /\ copen'[d] = copen[d] /\ asked'[d] = asked[d]
       /\ up'[d] = up[d] /\ down'[d] = down[d]
       /\ wpc'[d] = wpc[d] /\ sopen'[d] = sopen[d]

LEMMA OneClient ==
  ASSUME Inv, NEW c \in Clients, Shape', Touches(c), Paired(c)'
  PROVE  Inv'
<1>1. ASSUME NEW d \in Clients, d # c
      PROVE  Paired(d)'
  BY <1>1 DEF Inv, Touches, Paired, Requested, Pending, Reader, Answering, Follows
<1> QED
  BY <1>1 DEF Inv

\* A client that sent a request and left nothing behind.
LEMMA Waits ==
  ASSUME NEW c \in Clients, NEW m,
         cpc'[c] = "await", copen'[c], asked'[c] \in Requested(c),
         up'[c] = <<m>>, Tag(m) = asked'[c], down'[c] = <<>>,
         alive' => sopen'[c] /\ wpc'[c] \in Reader(c)',
         ~alive' => ~sopen'[c] /\ wpc'[c] = "closed"
  PROVE  Paired(c)'
<1>1. Pending(c)'
  BY Single DEF Pending
<1> QED
  BY <1>1 DEF Paired, Requested

\* Who takes a message while it waits takes the only one, except for a receiver
\* that joins, and had its request read.
LEMMA Takes ==
  ASSUME Inv, NEW c \in Clients, cpc[c] = "await", Receives(c)
  PROVE  /\ Answering(c) /\ copen[c] /\ asked[c] \in Requested(c)
         /\ ~(c \in Receivers /\ asked[c] = "join") => down'[c] = <<>>
<1>1. Paired(c) /\ Shape
  BY DEF Inv
<1>2. Answering(c)
  BY <1>1 DEF Paired, Pending, Receives
<1>3. down'[c] = Tail(down[c])
  BY <1>1 DEF Receives, Shape
<1> QED
  BY <1>1, <1>2, <1>3, Single DEF Answering, Paired

\* The clients.
LEMMA ConnectFailsStep ==
  ASSUME Inv, NEW c \in Clients, ConnectFails(c)
  PROVE  Inv'
<1>1. Paired(c) /\ Shape
  BY DEF Inv
<1>2. Shape' /\ Touches(c)
  BY <1>1 DEF Shape, Touches, ConnectFails, Exits, server, rooms
<1>3. Paired(c)'
  BY <1>1 DEF Shape, Paired, Requested, Pending, Reader, Answering, Follows,
     ConnectFails, Exits, server, rooms
<1> QED
  BY <1>2, <1>3, OneClient

LEMMA KilledStep ==
  ASSUME Inv, NEW c \in Clients, Killed(c)
  PROVE  Inv'
<1>1. Paired(c) /\ Shape
  BY DEF Inv
<1>2. Shape' /\ Touches(c)
  BY <1>1 DEF Shape, Touches, Killed, Exits, server, rooms
<1>3. Paired(c)'
  BY <1>1 DEF Shape, Paired, Requested, Pending, Reader, Answering, Follows,
     Killed, Exits, server, rooms
<1> QED
  BY <1>2, <1>3, OneClient

LEMMA ConnectsStep ==
  ASSUME Inv, NEW c \in Clients, NEW name, Connects(c, name)
  PROVE  Inv'
<1> DEFINE tag == IF c \in Senders THEN "slogin" ELSE "rlogin"
           m == Message(tag, name)
<1>1. Paired(c) /\ Shape
  BY DEF Inv
<1>2. Tag(m) = tag
  BY Tags
<1>3. Sends(c, m) /\ cpc[c] = "start" /\ alive /\ alive'
  BY DEF Connects
<1>4. Shape' /\ Touches(c)
  BY <1>1, <1>2, <1>3 DEF Shape, Touches, Connects, Sends, rooms
<1>5. up'[c] = <<m>>
  BY <1>1, <1>3, Single DEF Paired, Shape, Sends
<1>6. /\ cpc'[c] = "await" /\ copen'[c] /\ asked'[c] = tag /\ down'[c] = <<>>
      /\ sopen'[c] /\ wpc'[c] = "none"
  BY <1>1, <1>2, <1>3 DEF Paired, Shape, Connects, Sends, rooms
<1>7. asked'[c] \in Requested(c) /\ wpc'[c] \in Reader(c)'
  BY <1>6, ClientsAssumption DEF Requested, Reader, Joining
<1>8. Paired(c)'
  BY <1>2, <1>3, <1>5, <1>6, <1>7, Waits
<1> QED
  BY <1>4, <1>8, OneClient

LEMMA RefusedStep ==
  ASSUME Inv, NEW c \in Clients, Refused(c)
  PROVE  Inv'
<1>1. Paired(c) /\ Shape
  BY DEF Inv
<1>2. Shape' /\ Touches(c)
  BY <1>1 DEF Shape, Touches, Refused, Receives, Exits, server, rooms
<1>3. Paired(c)'
  BY <1>1 DEF Shape, Paired, Requested, Pending, Reader, Answering, Follows,
     Refused, Receives, Exits, server, rooms
<1> QED
  BY <1>2, <1>3, OneClient

LEMMA ReceiverJoinsStep ==
  ASSUME Inv, NEW c \in Receivers, c \in Clients, NEW name, ReceiverJoins(c, name)
  PROVE  Inv'
<1> DEFINE m == Message("join", name)
<1>1. Paired(c) /\ Shape
  BY DEF Inv
<1>2. Tag(m) = "join"
  BY Tags
<1>3. /\ Sends(c, m) /\ Receives(c) /\ cpc[c] = "await" /\ asked[c] = "rlogin"
      /\ Tag(Head(down[c])) = "ok" /\ UNCHANGED <<copen, alive, wpc, sopen>>
  BY DEF ReceiverJoins, IsRefused, server
<1>4. Shape' /\ Touches(c)
  BY <1>1, <1>2, <1>3 DEF Shape, Touches, Receives, Sends
<1>5. Answering(c) /\ copen[c] /\ down'[c] = <<>>
  BY <1>3, Takes
<1>6. up'[c] = <<m>>
  BY <1>1, <1>3, <1>5, Single DEF Answering, Shape, Sends
<1>7. cpc'[c] = "await" /\ copen'[c] /\ asked'[c] = "join"
  BY <1>1, <1>2, <1>3, <1>5 DEF Shape, Sends
<1>8. alive' => sopen'[c] /\ wpc'[c] \in Reader(c)'
  BY <1>3, <1>5, <1>7 DEF Answering, Follows, Reader, Joining
<1>9. ~alive' => ~sopen'[c] /\ wpc'[c] = "closed"
  BY <1>1, <1>3 DEF Paired
<1>10. asked'[c] \in Requested(c)
  BY <1>7, ClientsAssumption DEF Requested
<1>11. Paired(c)'
  BY <1>2, <1>5, <1>6, <1>7, <1>8, <1>9, <1>10, Waits
<1> QED
  BY <1>4, <1>11, OneClient

LEMMA AnsweredStep ==
  ASSUME Inv, NEW c \in Clients, Answered(c)
  PROVE  Inv'
<1>1. Paired(c) /\ Shape
  BY DEF Inv
<1>2. /\ cpc[c] = "await" /\ Receives(c) /\ ~IsRefused(c)
      /\ UNCHANGED <<asked, up, alive, wpc, sopen>>
  BY DEF Answered, server
<1>3. Shape' /\ Touches(c)
  BY <1>1 DEF Shape, Touches, Answered, Receives, Goes, Exits, server
<1>4. /\ Answering(c) /\ copen[c] /\ asked[c] \in Requested(c)
      /\ ~(c \in Receivers /\ asked[c] = "join") => down'[c] = <<>>
  BY <1>2, Takes
<1>5. CASE asked[c] = "quit"
  <2>1. cpc'[c] = "done" /\ ~copen'[c]
    BY <1>1, <1>5 DEF Answered, Exits, Shape
  <2> QED
    BY <1>1, <1>2, <1>3, <2>1, OneClient DEF Paired
<1>6. CASE asked[c] # "quit" /\ c \in Receivers
  <2>1. cpc'[c] = "listen" /\ copen'[c]
    BY <1>1, <1>4, <1>6 DEF Answered, Goes, Shape
  <2> QED
    BY <1>1, <1>2, <1>3, <1>6, <2>1, OneClient DEF Paired
<1>7. CASE asked[c] # "quit" /\ c \in Senders
  <2>1. cpc'[c] = "prompt" /\ copen'[c] /\ down'[c] = <<>>
    BY <1>1, <1>4, <1>7, ClientsAssumption DEF Answered, Goes, Shape
  <2>2. alive' => sopen'[c] /\ wpc'[c] = "s_chat"
    BY <1>2, <1>4, <1>7 DEF IsRefused, Joining, Answering, Follows
  <2>3. up'[c] = <<>>
    BY <1>2, <1>4 DEF Answering
  <2>4. Paired(c)'
    BY <1>1, <1>2, <1>7, <2>1, <2>2, <2>3 DEF Paired
  <2> QED
    BY <1>3, <2>4, OneClient
<1> QED
  BY <1>5, <1>6, <1>7 DEF Clients

LEMMA UnansweredStep ==
  ASSUME Inv, NEW c \in Clients, Unanswered(c)
  PROVE  Inv'
<1>1. Paired(c) /\ Shape
  BY DEF Inv
<1>2. Shape' /\ Touches(c)
  BY <1>1 DEF Shape, Touches, Unanswered, Exits, server, rooms
<1>3. Paired(c)'
  BY <1>1 DEF Shape, Paired, Requested, Pending, Reader, Answering, Follows,
     Unanswered, Exits, server, rooms
<1> QED
  BY <1>2, <1>3, OneClient

LEMMA TypesNothingStep ==
  ASSUME Inv, NEW c \in Clients, NEW l, TypesNothing(c, l)
  PROVE  Inv'
<1>1. Paired(c) /\ Shape
  BY DEF Inv
<1>2. Shape' /\ Touches(c)
  BY <1>1 DEF Shape, Touches, TypesNothing, server, rooms
<1>3. Paired(c)'
  BY <1>1 DEF Shape, Paired, Requested, Pending, Reader, Answering, Follows,
     TypesNothing, server, rooms
<1> QED
  BY <1>2, <1>3, OneClient

LEMMA RequestsStep ==
  ASSUME Inv, NEW c \in Senders, c \in Clients, NEW l, Requests(c, l)
  PROVE  Inv'
<1>1. Paired(c) /\ Shape
  BY DEF Inv
<1>2. Shape' /\ Touches(c)
  BY <1>1, CommandTags, Single, ClientsAssumption DEF Shape, Touches, Requests, Types, Sends, server,
     rooms, Joining
<1>3. Paired(c)'
  BY <1>1, CommandTags, Single, ClientsAssumption
     DEF Shape, Paired, Requested, Pending, Reader, Answering, Follows,
     Requests, Types, Sends, server, rooms, Joining
<1> QED
  BY <1>2, <1>3, OneClient

LEMMA RequestFailsStep ==
  ASSUME Inv, NEW c \in Clients, NEW l, RequestFails(c, l)
  PROVE  Inv'
<1>1. Paired(c) /\ Shape
  BY DEF Inv
<1>2. Shape' /\ Touches(c)
  BY <1>1 DEF Shape, Touches, RequestFails, Types, Exits, server, rooms
<1>3. Paired(c)'
  BY <1>1 DEF Shape, Paired, Requested, Pending, Reader, Answering, Follows,
     RequestFails, Types, Exits, server, rooms
<1> QED
  BY <1>2, <1>3, OneClient

LEMMA EndOfInputStep ==
  ASSUME Inv, NEW c \in Clients, EndOfInput(c)
  PROVE  Inv'
<1>1. Paired(c) /\ Shape
  BY DEF Inv
<1>2. Shape' /\ Touches(c)
  BY <1>1 DEF Shape, Touches, EndOfInput, Exits, server, rooms
<1>3. Paired(c)'
  BY <1>1 DEF Shape, Paired, Requested, Pending, Reader, Answering, Follows,
     EndOfInput, Exits, server, rooms
<1> QED
  BY <1>2, <1>3, OneClient

LEMMA ShowsStep ==
  ASSUME Inv, NEW c \in Clients, Shows(c)
  PROVE  Inv'
<1>1. Paired(c) /\ Shape
  BY DEF Inv
<1>2. Shape' /\ Touches(c)
  BY <1>1 DEF Shape, Touches, Shows, Receives, server, rooms
<1>3. Paired(c)'
  BY <1>1 DEF Shape, Paired, Requested, Pending, Reader, Answering, Follows,
     Shows, Receives, server, rooms
<1> QED
  BY <1>2, <1>3, OneClient

LEMMA EndsStep ==
  ASSUME Inv, NEW c \in Clients, Ends(c)
  PROVE  Inv'
<1>1. Paired(c) /\ Shape
  BY DEF Inv
<1>2. Shape' /\ Touches(c)
  BY <1>1 DEF Shape, Touches, Ends, Exits, server, rooms
<1>3. Paired(c)'
  BY <1>1 DEF Shape, Paired, Requested, Pending, Reader, Answering, Follows,
     Ends, Exits, server, rooms
<1> QED
  BY <1>2, <1>3, OneClient

\* The server.
LEMMA AcceptsStep ==
  ASSUME Inv, NEW c \in Clients, NEW step \in {"login", "orphan"}, Accepts(c, step)
  PROVE  Inv'
<1>1. Paired(c) /\ Shape
  BY DEF Inv
<1>2. Shape' /\ Touches(c)
  BY <1>1, ClientsAssumption DEF Shape, Touches, Accepts, client, rooms, Joining
<1>3. Paired(c)'
  BY <1>1, ClientsAssumption
     DEF Shape, Paired, Requested, Pending, Reader, Answering, Follows,
     Accepts, client, rooms, Joining
<1> QED
  BY <1>2, <1>3, OneClient

\* The request that a worker reads is the one its client waits for.
LEMMA ReadsAsked ==
  ASSUME Inv, NEW c \in Clients, NEW at, Reads(c, at), at # "closed", cpc[c] = "await"
  PROVE  /\ alive /\ asked[c] \in Requested(c)
         /\ Pending(c) /\ Asks(c, asked[c]) /\ at \in Reader(c)
BY DEF Inv, Paired, Reads, Pending, Answering, Asks

\* A worker that answers what was asked and goes on as the client expects.
LEMMA AnswersStep ==
  ASSUME Inv, NEW c \in Clients, NEW at, NEW answer, NEW next,
         Reads(c, at), at \notin {"closed", "none"}, Answers(c, answer, next),
         next \in {"login", "r_join", "r_wait", "s_chat", "closed"},
         cpc[c] = "await" =>
           /\ answer \in AnswersTo(asked[c])
           /\ next = "r_wait" => asked[c] = "join"
           /\ c \in Receivers /\ asked[c] = "rlogin" /\ Tag(answer) = "ok" => next = "r_join"
           /\ c \in Senders /\ asked[c] # "quit" /\ (asked[c] = "slogin" => Tag(answer) = "ok")
                => next = "s_chat"
  PROVE  Inv'
<1>1. Paired(c) /\ Shape
  BY DEF Inv
<1>2. Shape' /\ Touches(c)
  BY <1>1 DEF Shape, Touches, Reads, Answers, client
<1>3. /\ up[c] # <<>> /\ wpc[c] = at /\ up'[c] = Tail(up[c])
      /\ down'[c] = Append(down[c], answer) /\ wpc'[c] = next
      /\ sopen'[c] <=> next # "closed"
      /\ UNCHANGED <<cpc, copen, asked, alive>>
  BY <1>1 DEF Shape, Reads, Answers, client
<1>4. alive /\ cpc[c] # "start" /\ cpc[c] # "prompt"
  BY <1>1, <1>3 DEF Paired
<1>5. CASE cpc[c] # "await"
  BY <1>1, <1>2, <1>3, <1>4, <1>5, OneClient DEF Paired
<1>6. CASE cpc[c] = "await"
  <2>1. Pending(c) /\ asked[c] \in Requested(c)
    BY <1>6, ReadsAsked
  <2>2. up'[c] = <<>>
    BY <1>3, <2>1, Single DEF Pending
  <2>3. down'[c] = <<answer>>
    BY <1>3, <2>1, Single DEF Pending
  <2>4. /\ Head(down'[c]) = answer /\ down'[c] = <<Head(down'[c])>> /\ down'[c] # <<>>
        /\ IsSequence(down'[c])
    BY <2>3, Single
  <2>5. Follows(c)'
    BY <1>3, <1>6, <2>4 DEF Follows
  <2>6. Head(down'[c]) \in AnswersTo(asked'[c])
    BY <1>3, <1>6, <2>4
  <2>7. Answering(c)'
    BY <2>2, <2>4, <2>5, <2>6 DEF Answering
  <2> QED
    BY <1>1, <1>2, <1>3, <1>4, <1>6, <2>1, <2>7, OneClient DEF Paired, Requested
<1> QED
  BY <1>5, <1>6

LEMMA LoginRefusedStep ==
  ASSUME Inv, NEW c \in Clients, LoginRefused(c)
  PROVE  Inv'
<1>1. Reads(c, "login") /\ Answers(c, Err("Invalid username"), "closed")
  BY DEF LoginRefused
<1>2. cpc[c] = "await" => /\ "login" \in Reader(c) /\ asked[c] \in Requested(c)
                          /\ Tag(Head(up[c])) = asked[c]
  BY <1>1, ReadsAsked DEF Asks
<1> QED
  BY <1>1, <1>2, AnswersStep, AnswersAre, Tags, ClientsAssumption
     DEF Reader, Requested, Joining, Asks, Clients

LEMMA LoggedInStep ==
  ASSUME Inv, NEW c \in Clients, LoggedIn(c)
  PROVE  Inv'
<1>1. Reads(c, "login")
  BY DEF LoggedIn
<1>2. cpc[c] = "await" => /\ "login" \in Reader(c) /\ asked[c] \in Requested(c)
                          /\ Tag(Head(up[c])) = asked[c]
  BY <1>1, ReadsAsked DEF Asks
<1>3. CASE Asks(c, "slogin") /\ Answers(c, Ok("Logged in as sender"), "s_chat")
  BY <1>1, <1>2, <1>3, AnswersStep, AnswersAre, Tags, ClientsAssumption DEF Asks, Requested
<1>4. CASE Asks(c, "rlogin") /\ Answers(c, Ok("Logged in as receiver"), "r_join")
  BY <1>1, <1>2, <1>4, AnswersStep, AnswersAre, Tags, ClientsAssumption DEF Asks, Requested
<1> QED
  BY <1>3, <1>4 DEF LoggedIn

LEMMA ReceiverRefusedStep ==
  ASSUME Inv, NEW c \in Receivers, c \in Clients, ReceiverRefused(c)
  PROVE  Inv'
<1>1. Reads(c, "r_join") /\ Answers(c, Err("Invalid room name"), "closed")
  BY DEF ReceiverRefused
<1>2. cpc[c] = "await" => /\ "r_join" \in Reader(c) /\ asked[c] \in Requested(c)
                          /\ Tag(Head(up[c])) = asked[c]
  BY <1>1, ReadsAsked DEF Asks
<1> QED
  BY <1>1, <1>2, AnswersStep, AnswersAre, Tags, ClientsAssumption
     DEF Reader, Requested, Joining, Asks

LEMMA ReceiverJoinedStep ==
  ASSUME Inv, NEW c \in Receivers, c \in Clients, ReceiverJoined(c)
  PROVE  Inv'
<1>1. Reads(c, "r_join") /\ Answers(c, Ok("Joined room"), "r_wait")
  BY DEF ReceiverJoined
<1>2. cpc[c] = "await" => /\ "r_join" \in Reader(c) /\ asked[c] \in Requested(c)
                          /\ Tag(Head(up[c])) = asked[c]
  BY <1>1, ReadsAsked DEF Asks
<1> QED
  BY <1>1, <1>2, AnswersStep, AnswersAre, Tags, ClientsAssumption
     DEF Reader, Requested, Joining, Asks

LEMMA SaidStep ==
  ASSUME Inv, NEW c \in Senders, c \in Clients, Said(c)
  PROVE  Inv'
<1>1. Reads(c, "s_chat") /\ Answers(c, Ok("Message sent"), "s_chat") /\ Asks(c, "sendall")
  BY DEF Said
<1>2. cpc[c] = "await" => /\ "s_chat" \in Reader(c) /\ asked[c] \in Requested(c)
                          /\ Tag(Head(up[c])) = asked[c]
  BY <1>1, ReadsAsked DEF Asks
<1> QED
  BY <1>1, <1>2, AnswersStep, AnswersAre, Tags, ClientsAssumption
     DEF Reader, Requested, Joining, Asks

LEMMA SenderJoinedStep ==
  ASSUME Inv, NEW c \in Senders, c \in Clients, SenderJoined(c)
  PROVE  Inv'
<1>1. Reads(c, "s_chat") /\ Answers(c, Ok("Joined room"), "s_chat") /\ Asks(c, "join")
  BY DEF SenderJoined
<1>2. cpc[c] = "await" => /\ "s_chat" \in Reader(c) /\ asked[c] \in Requested(c)
                          /\ Tag(Head(up[c])) = asked[c]
  BY <1>1, ReadsAsked DEF Asks
<1> QED
  BY <1>1, <1>2, AnswersStep, AnswersAre, Tags, ClientsAssumption
     DEF Reader, Requested, Joining, Asks

LEMMA LeftStep ==
  ASSUME Inv, NEW c \in Senders, c \in Clients, Left(c)
  PROVE  Inv'
<1>1. Reads(c, "s_chat") /\ Answers(c, Ok("Left room"), "s_chat") /\ Asks(c, "leave")
  BY DEF Left
<1>2. cpc[c] = "await" => /\ "s_chat" \in Reader(c) /\ asked[c] \in Requested(c)
                          /\ Tag(Head(up[c])) = asked[c]
  BY <1>1, ReadsAsked DEF Asks
<1> QED
  BY <1>1, <1>2, AnswersStep, AnswersAre, Tags, ClientsAssumption
     DEF Reader, Requested, Joining, Asks

LEMMA RequestRefusedStep ==
  ASSUME Inv, NEW c \in Senders, c \in Clients, RequestRefused(c)
  PROVE  Inv'
<1>1. Reads(c, "s_chat")
  BY DEF RequestRefused
<1>2. cpc[c] = "await" => Tag(Head(up[c])) = asked[c]
  BY <1>1, ReadsAsked DEF Asks
<1>3. CASE NeedsRoom(c) /\ Answers(c, Err("Not in a room"), "s_chat")
  BY <1>1, <1>2, <1>3, AnswersStep, AnswersAre, Tags, ClientsAssumption DEF NeedsRoom, Asks
<1>4. CASE Asks(c, "join") /\ Answers(c, Err("Invalid room name"), "s_chat")
  BY <1>1, <1>2, <1>4, AnswersStep, AnswersAre, Tags, ClientsAssumption DEF Asks
<1> QED
  BY <1>3, <1>4 DEF RequestRefused

LEMMA QuitAnsweredStep ==
  ASSUME Inv, NEW c \in Senders, c \in Clients, QuitAnswered(c)
  PROVE  Inv'
<1>1. Reads(c, "s_chat") /\ Answers(c, Ok("Goodbye"), "closed") /\ Asks(c, "quit")
  BY DEF QuitAnswered
<1>2. cpc[c] = "await" => /\ "s_chat" \in Reader(c) /\ asked[c] \in Requested(c)
                          /\ Tag(Head(up[c])) = asked[c]
  BY <1>1, ReadsAsked DEF Asks
<1> QED
  BY <1>1, <1>2, AnswersStep, AnswersAre, Tags, ClientsAssumption
     DEF Reader, Requested, Joining, Asks

LEMMA ReadsEndStep ==
  ASSUME Inv, NEW c \in Clients, ReadsEnd(c)
  PROVE  Inv'
<1>1. Paired(c) /\ Shape
  BY DEF Inv
<1>2. Shape' /\ Touches(c)
  BY <1>1 DEF Shape, Touches, ReadsEnd, client, rooms
<1>3. Paired(c)'
  BY <1>1 DEF Shape, Paired, Requested, Pending, Reader, Answering, Follows,
     ReadsEnd, client, rooms
<1> QED
  BY <1>2, <1>3, OneClient

LEMMA DeliversStep ==
  ASSUME Inv, NEW c \in Receivers, c \in Clients, Delivers(c)
  PROVE  Inv'
<1>1. Paired(c) /\ Shape
  BY DEF Inv
<1>2. Shape' /\ Touches(c)
  BY <1>1, AppendsBehind, ClientsAssumption DEF Shape, Touches, Delivers, Dequeues, client
<1>3. Paired(c)'
  BY <1>1, AppendsBehind, ClientsAssumption
     DEF Shape, Paired, Requested, Pending, Reader, Answering, Follows,
     Delivers, Dequeues, client
<1> QED
  BY <1>2, <1>3, OneClient

LEMMA DropsStep ==
  ASSUME Inv, NEW c \in Receivers, c \in Clients, Drops(c)
  PROVE  Inv'
<1>1. Paired(c) /\ Shape
  BY DEF Inv
<1>2. Shape' /\ Touches(c)
  BY <1>1, ClientsAssumption DEF Shape, Touches, Drops, Dequeues, client
<1>3. Paired(c)'
  BY <1>1, ClientsAssumption
     DEF Shape, Paired, Requested, Pending, Reader, Answering, Follows,
     Drops, Dequeues, client
<1> QED
  BY <1>2, <1>3, OneClient

\* The server dies.  What it wrote is lost only if a request was not read, and
\* then there was no answer.
LEMMA DiesStep ==
  ASSUME Inv, Dies
  PROVE  Inv'
<1>1. Shape'
  BY DEF Inv, Shape, Dies, client
<1>2. ASSUME NEW c \in Clients
      PROVE  Paired(c)'
  <2>1. Paired(c)
    BY DEF Inv
  <2>2. down'[c] = down[c] \/ (up[c] # <<>> /\ down'[c] = <<>>)
    BY DEF Dies
  <2> QED
    BY <2>1, <2>2 DEF Dies, client, Paired, Requested, Pending, Reader, Answering, Follows
<1> QED
  BY <1>1, <1>2 DEF Inv

LEMMA InitInv == Init => Inv
BY DEF Init, Inv, Shape, Paired

LEMMA StepInv == Inv /\ [Next]_vars => Inv'
<1> SUFFICES ASSUME Inv, [Next]_vars
             PROVE  Inv'
  OBVIOUS
<1> Senders \subseteq Clients /\ Receivers \subseteq Clients
  BY DEF Clients
<1>1. ASSUME NEW c \in Clients, Hears(c)
      PROVE  Inv'
  BY <1>1, RefusedStep, AnsweredStep, UnansweredStep DEF Hears
<1>2. ASSUME NEW c \in Clients, Serves(c)
      PROVE  Inv'
  BY <1>2, AcceptsStep, LoginRefusedStep, LoggedInStep, ReadsEndStep DEF Serves
<1>3. ASSUME NEW c \in Senders, ServesSender(c)
      PROVE  Inv'
  BY <1>2, <1>3, SaidStep, SenderJoinedStep, LeftStep, RequestRefusedStep, QuitAnsweredStep
     DEF ServesSender
<1>4. ASSUME NEW c \in Receivers, ServesReceiver(c)
      PROVE  Inv'
  BY <1>2, <1>4, ReceiverRefusedStep, ReceiverJoinedStep, DeliversStep, DropsStep
     DEF ServesReceiver
<1>5. ASSUME NEW c \in Receivers, RunsReceiver(c)
      PROVE  Inv'
  BY <1>1, <1>5, ShowsStep, EndsStep, ReceiverJoinsStep DEF RunsReceiver
<1>6. ASSUME NEW c \in Senders, NEW l,
             TypesNothing(c, l) \/ Requests(c, l) \/ RequestFails(c, l)
      PROVE  Inv'
  BY <1>6, TypesNothingStep, RequestsStep, RequestFailsStep
<1>7. ASSUME UNCHANGED vars
      PROVE  Inv'
  BY <1>7 DEF vars, client, server, rooms, Inv, Shape, Paired, Requested, Pending, Reader,
     Answering, Follows
<1> QED
  BY <1>1, <1>3, <1>4, <1>5, <1>6, <1>7, ConnectFailsStep, KilledStep, ConnectsStep,
     EndOfInputStep, DiesStep
     DEF Next

LEMMA InvLockstep == Inv => Lockstep
<1> SUFFICES ASSUME Inv, NEW c \in Clients, copen[c]
             PROVE  /\ cpc[c] = "await" =>
                         \/ down[c] = <<>> /\ Len(up[c]) = 1 /\ Tag(up[c][1]) = asked[c]
                            /\ IsServed(c)
                         \/ up[c] = <<>> /\ down[c] # <<>>
                            /\ down[c][1] \in AnswersTo(asked[c])
                    /\ c \in Senders => Len(up[c]) + Len(down[c]) <= 1
                    /\ cpc[c] = "prompt" => up[c] = <<>> /\ down[c] = <<>> /\ IsServed(c)
  BY DEF Lockstep
<1>1. Paired(c)
  BY DEF Inv
<1>2. /\ Pending(c) => /\ down[c] = <<>> /\ Len(up[c]) = 1 /\ Tag(up[c][1]) = asked[c]
                       /\ IsServed(c)
      /\ Answering(c) => /\ up[c] = <<>> /\ down[c] # <<>>
                         /\ down[c][1] \in AnswersTo(asked[c])
                         /\ c \in Senders => Len(down[c]) = 1
  BY Single, AppendsBehind, ClientsAssumption DEF Pending, Answering, IsServed
<1>3. cpc[c] = "await" => Pending(c) \/ Answering(c)
  BY <1>1 DEF Paired
<1>4. cpc[c] = "prompt" => up[c] = <<>> /\ down[c] = <<>> /\ IsServed(c)
  BY <1>1 DEF Paired, IsServed
<1>5. c \in Senders => cpc[c] \in {"await", "prompt"}
  BY <1>1, ClientsAssumption DEF Paired
<1>6. c \in Senders => Len(up[c]) + Len(down[c]) <= 1
  <2>1. /\ up[c] = <<>> => Len(up[c]) = 0
        /\ down[c] = <<>> => Len(down[c]) = 0
    OBVIOUS
  <2>2. c \in Senders => \/ Len(up[c]) = 0 /\ Len(down[c]) = 1
                         \/ Len(down[c]) = 0 /\ Len(up[c]) = 1
                         \/ Len(up[c]) = 0 /\ Len(down[c]) = 0
    BY <1>2, <1>3, <1>4, <1>5, <2>1, Zenon
  <2>3. \A m, n \in {0, 1} : m = 0 \/ n = 0 => m + n <= 1
    OBVIOUS
  <2> QED
    BY <2>2, <2>3, Zenon
<1> QED
  BY <1>2, <1>3, <1>4, <1>6

\* Requests and answers stay paired: a client that waits has its request, or
\* the answer to it, on the way (sender.cpp, receiver.cpp, chat_with_sender).
THEOREM StaysInLockstep == Spec => []Lockstep
<1>1. Spec => []Inv
  BY InitInv, StepInv, PTL DEF Spec
<1> QED
  BY <1>1, InvLockstep, PTL
------------------------------------------------------------------------------
(* What the users see *)

\* What is said, and the requests that carry it.
Texts == {Trim(l) : l \in Typed}
Sayings == [from : {Name(c) : c \in Senders \cap Alnum}, text : Texts]
Request(c) ==
  IF c \in Senders
  THEN {Message("slogin", n) : n \in {Name(c), BadName}} \cup {Command(t) : t \in Texts}
  ELSE {Message("rlogin", n) : n \in {Name(c), BadName}}
       \cup {Message("join", n) : n \in RoomNames \cup {BadName}}

\* What is on its way to a receiver: answers, and what was said in a room.
DeliveryOf(n, said) ==
  Message("delivery", n \o <<Colon>> \o said.from \o <<Colon>> \o said.text)
Answer == UNION {AnswersTo(tag) : tag \in DOMAIN OkTo}
Sent == Answer \cup {DeliveryOf(n, said) : n \in RoomNames, said \in Sayings}

RoomShape ==
  /\ \A c \in Clients : up[c] \in Seq(Request(c))
  /\ room \in [Clients -> RoomNames \cup {Nowhere}]
  /\ log \in [RoomNames -> Seq(Sayings)]
  /\ queue \in [Receivers -> Seq(Sayings)]
  /\ shown \in [Receivers -> Seq(Sayings)]
  /\ since \in [Receivers -> Nat]
  /\ \A r \in Receivers : down[r] \in Seq(Sent)
  /\ \A c \in Senders : wpc[c] = "s_chat" => c \in Alnum

\* A receiver is in a room when the answer to its join is ok, not before, and
\* nothing was said to it before.
JoinExact(r) ==
  /\ cpc[r] \in {"start", "await"} => shown[r] = <<>>
  /\ cpc[r] = "start" => room[r] = Nowhere
  /\ cpc[r] = "await" =>
       (room[r] # Nowhere <=> asked[r] = "join" /\ down[r] # <<>> /\ Tag(Head(down[r])) = "ok")
  /\ cpc[r] = "listen" => room[r] # Nowhere
  /\ wpc[r] \notin {"r_wait", "closed"} => room[r] = Nowhere /\ queue[r] = <<>>
  /\ wpc[r] = "r_wait" => room[r] # Nowhere

\* What is said in a room is shown to a receiver, on its way behind the answer
\* to its join, or queued for it; the last only while its worker is at work.
OnItsWay(r) == IF cpc[r] = "await" THEN Tail(down[r]) ELSE down[r]
Seen(r) == since[r] + Len(shown[r])
Owed(r) == Seen(r) + Len(OnItsWay(r))
StreamAt(r) ==
  LET said == log[room[r]] IN
  /\ Owed(r) <= Len(said)
  /\ \A i \in 1..Len(OnItsWay(r)) : OnItsWay(r)[i] = DeliveryOf(room[r], said[Seen(r) + i])
  /\ wpc[r] = "r_wait" =>
       /\ Owed(r) + Len(queue[r]) = Len(said)
       /\ \A i \in 1..Len(queue[r]) : queue[r][i] = said[Owed(r) + i]

RoomInv ==
  /\ RoomShape
  /\ \A r \in Receivers : JoinExact(r) /\ (IsIn(r) => StreamAt(r))

\* A set of naturals has a least element, and a largest one if it has a bound.
LEMMA LeastExists ==
  ASSUME NEW S \in SUBSET Nat, S # {}
  PROVE  \E k \in S : \A j \in S : k <= j
<1> DEFINE Below(k) == 1..k
           T == {Below(k) : k \in S}
<1>1. T \subseteq FiniteSubsetsOf(Nat)
  <2> SUFFICES ASSUME NEW k \in S PROVE Below(k) \in FiniteSubsetsOf(Nat)
    OBVIOUS
  <2>1. IsFiniteSet(1..k)
    BY FS_Interval
  <2> QED  BY <2>1 DEF FiniteSubsetsOf
<1>2. PICK x \in T : \A y \in T : ~ (<<y, x>> \in StrictSubsetOrdering(Nat))
  <2> HIDE DEF T
  <2>1. T # {}
    BY DEF T
  <2> QED  BY <1>1, <2>1, FS_StrictSubsetOrderingWellFounded, WFMin
<1>3. PICK k \in S : x = Below(k)
  OBVIOUS
<1>4. ASSUME NEW j \in S, j < k PROVE FALSE
  <2>1. Below(j) \in T /\ Below(j) \subseteq Below(k) /\ k \in Below(k) /\ k \notin Below(j)
    BY <1>4
  <2>2. <<Below(j), Below(k)>> \in StrictSubsetOrdering(Nat)
    BY <2>1 DEF StrictSubsetOrdering
  <2> QED  BY <2>1, <2>2, <1>2, <1>3
<1> QED  BY <1>4

LEMMA LargestExists ==
  ASSUME NEW n \in Nat, NEW S \in SUBSET (0..n), S # {}
  PROVE  \E k \in S : \A j \in S : k >= j
<1> DEFINE T == {n - k : k \in S}
<1>1. \A k \in S : k \in Nat /\ n - k \in Nat
  OBVIOUS
<1>2. T \in SUBSET Nat /\ T # {}
  BY <1>1
<1>3. PICK m \in T : \A j \in T : m <= j
  <2> HIDE DEF T
  <2> QED  BY <1>2, LeastExists
<1>4. PICK k \in S : m = n - k
  OBVIOUS
<1>5. ASSUME NEW j \in S PROVE k >= j
  <2>1. n - j \in T
    OBVIOUS
  <2>2. n - k <= n - j
    BY <1>3, <1>4, <2>1
  <2> QED  BY <1>1, <2>2
<1> QED  BY <1>5

\* What is left of a line when it is trimmed is a part of it.
LEMMA TrimIsPart ==
  ASSUME NEW S, NEW l \in Seq(S)
  PROVE  Trim(l) \in Seq(S)
<1>1. Len(l) \in Nat /\ DOMAIN l = 1..Len(l) /\ \A i \in 1..Len(l) : l[i] \in S
  BY LenProperties, ElementOfSeq
<1>2. CASE Words(l) = {}
  BY <1>2, EmptySeq DEF Trim
<1>3. CASE Words(l) # {}
  <2> DEFINE W == Words(l)
             first == CHOOSE i \in W : \A j \in W : i <= j
             last == CHOOSE i \in W : \A j \in W : i >= j
  <2>1. W \in SUBSET Nat /\ W \in SUBSET (0..Len(l)) /\ W \in SUBSET (1..Len(l))
    BY <1>1 DEF Words
  <2>2. first \in W
    <3> HIDE DEF W
    <3>1. \E i \in W : \A j \in W : i <= j
      BY <1>3, <2>1, LeastExists DEF W
    <3> QED  BY <3>1
  <2>3. last \in W
    <3> HIDE DEF W
    <3>1. \E i \in W : \A j \in W : i >= j
      BY <1>1, <1>3, <2>1, LargestExists DEF W
    <3> QED  BY <3>1
  <2>4. Trim(l) = SubSeq(l, first, last)
    BY <1>3 DEF Trim
  <2> HIDE DEF first, last, W
  <2>5. first \in 1..Len(l) /\ last \in 1..Len(l)
    BY <2>1, <2>2, <2>3
  <2>6. first \in Int /\ last \in Int /\ \A i \in first..last : l[i] \in S
    BY <1>1, <2>5
  <2> QED  BY <2>4, <2>6, SubSeqProperties
<1> QED  BY <1>2, <1>3

LEMMA TextsAreSequences ==
  ASSUME NEW t \in Texts
  PROVE  \E S : t \in Seq(S)
<1>1. PICK l \in Typed : t = Trim(l)
  BY DEF Texts
<1>2. l \in Seq({l[i] : i \in DOMAIN l})
  BY TypedAssumption
<1> QED  BY <1>1, <1>2, TrimIsPart

\* The parts before and after the first colon.
LEMMA Cut ==
  ASSUME NEW S, NEW s \in Seq(S), NEW k \in 1..Len(s), s[k] = Colon,
         \A j \in 1..(k - 1) : s[j] # Colon
  PROVE  Before(s, Colon) = SubSeq(s, 1, k - 1) /\ After(s, Colon) = SubSeq(s, k + 1, Len(s))
<1>1. Len(s) \in Nat /\ DOMAIN s = 1..Len(s)
  BY LenProperties
<1>2. \A i \in DOMAIN s : s[i] = Colon /\ (\A j \in 1..(i - 1) : s[j] # Colon) <=> i = k
  BY <1>1
<1>3. First(s, Colon) = k
  BY <1>1, <1>2 DEF First
<1> QED  BY <1>3 DEF Before, After

LEMMA FourWords ==
  ASSUME NEW S, NEW a \in S, NEW b \in S, NEW c \in S, NEW d \in S
  PROVE  LET s == <<a>> \o <<b>> \o <<c>> \o <<d>>
         IN  s \in Seq(S) /\ Len(s) = 4 /\ s[1] = a /\ s[2] = b /\ s[3] = c /\ s[4] = d
<1>1. \A x \in S : <<x>> \in Seq(S) /\ Len(<<x>>) = 1 /\ <<x>>[1] = x
  OBVIOUS
<1> DEFINE s2 == <<a>> \o <<b>>
           s3 == s2 \o <<c>>
           s4 == s3 \o <<d>>
<1>2. s2 \in Seq(S) /\ Len(s2) = 2 /\ s2[1] = a /\ s2[2] = b
  BY <1>1, ConcatProperties
<1> HIDE DEF s2
<1>3. s3 \in Seq(S) /\ Len(s3) = 3 /\ s3[1] = a /\ s3[2] = b /\ s3[3] = c
  BY <1>1, <1>2, ConcatProperties
<1> HIDE DEF s3
<1>4. s4 \in Seq(S) /\ Len(s4) = 4 /\ s4[1] = a /\ s4[2] = b /\ s4[3] = c /\ s4[4] = d
  <2> DEFINE last == <<d>>
  <2>1. last \in Seq(S) /\ Len(last) = 1 /\ last[1] = d
    BY <1>1
  <2> HIDE DEF last
  <2>2. /\ s3 \o last \in Seq(S) /\ Len(s3 \o last) = Len(s3) + Len(last)
        /\ \A i \in 1..(Len(s3) + Len(last)) :
             (s3 \o last)[i] = IF i <= Len(s3) THEN s3[i] ELSE last[i - Len(s3)]
    BY <1>3, <2>1, ConcatProperties
  <2>3. s4 = s3 \o last
    BY DEF last
  <2> HIDE DEF s4
  <2> QED  BY <1>3, <2>1, <2>2, <2>3
<1> QED  BY <1>4 DEF s2, s3

\* A delivery is taken apart as it was put together: the names of the room and
\* of the sender have no colon, so the first two are those between the parts.
LEMMA ParsedDelivery ==
  ASSUME NEW n \in RoomNames, NEW said \in Sayings
  PROVE  Parsed(DeliveryOf(n, said).data) = said
<1>1. PICK w \in Alnum : n = <<w>>
  BY DEF RoomNames
<1>2. PICK c \in Alnum : said.from = <<c>>
  BY DEF Sayings, Name
<1>3. said.text \in Texts /\ said = [from |-> said.from, text |-> said.text]
  BY DEF Sayings
<1>4. PICK T : said.text \in Seq(T)
  BY <1>3, TextsAreSequences
<1> DEFINE t == said.text
           S == T \cup {w, c, Colon}
           head == <<w>> \o <<Colon>> \o <<c>> \o <<Colon>>
           p == DeliveryOf(n, said).data
<1>5. w # Colon /\ c # Colon
  BY NamesAssumption
<1>6. p = <<w>> \o <<Colon>> \o <<c>> \o <<Colon>> \o t
  BY <1>1, <1>2 DEF DeliveryOf, Message
<1>7. w \in S /\ c \in S /\ Colon \in S
  OBVIOUS
<1>8. t \in Seq(S)
  BY <1>4, SeqMonotonic
<1>9. /\ head \in Seq(S) /\ Len(head) = 4
      /\ head[1] = w /\ head[2] = Colon /\ head[3] = c /\ head[4] = Colon
  <2> HIDE DEF S
  <2> QED  BY <1>7, FourWords
<1>10. p = head \o t
  BY <1>6
<1> HIDE DEF p, t, head
<1>11. Len(t) \in Nat /\ t \in [1..Len(t) -> S]
  BY <1>8, LenProperties
<1>12. /\ p \in Seq(S) /\ Len(p) = 4 + Len(t)
       /\ \A i \in 1..(4 + Len(t)) : p[i] = IF i <= 4 THEN head[i] ELSE t[i - 4]
  <2> HIDE DEF S
  <2>1. /\ head \o t \in Seq(S) /\ Len(head \o t) = Len(head) + Len(t)
        /\ \A i \in 1..(Len(head) + Len(t)) :
             (head \o t)[i] = IF i <= Len(head) THEN head[i] ELSE t[i - Len(head)]
    BY <1>8, <1>9, ConcatProperties
  <2> QED  BY <1>9, <1>10, <2>1
<1>13. /\ p[1] = w /\ p[2] = Colon /\ p[3] = c /\ p[4] = Colon
       /\ \A i \in 1..Len(t) : p[4 + i] = t[i]
  BY <1>9, <1>11, <1>12
<1> DEFINE u == SubSeq(p, 3, Len(p))
<1> HIDE DEF S
<1>14. After(p, Colon) = u
  <2>1. 2 \in 1..Len(p) /\ \A j \in 1..(2 - 1) : p[j] # Colon
    BY <1>5, <1>11, <1>12, <1>13
  <2> QED  BY <1>12, <1>13, <2>1, Cut
<1>15. /\ u \in Seq(S) /\ Len(u) = 2 + Len(t)
       /\ \A i \in 1..(2 + Len(t)) : u[i] = p[2 + i]
  <2>1. \A i \in 3..Len(p) : p[i] \in S
    BY <1>11, <1>12, ElementOfSeq
  <2>2. /\ u \in Seq(S) /\ Len(u) = Len(p) - 3 + 1
        /\ \A i \in 1..(Len(p) - 3 + 1) : u[i] = p[3 + i - 1]
    BY <1>11, <1>12, <2>1, SubSeqProperties
  <2> QED  BY <1>11, <1>12, <2>2
<1>16. u[1] = c /\ u[2] = Colon /\ \A i \in 1..Len(t) : u[2 + i] = t[i]
  BY <1>11, <1>13, <1>15
<1> HIDE DEF u
<1>17. Before(u, Colon) = SubSeq(u, 1, 1) /\ After(u, Colon) = SubSeq(u, 3, Len(u))
  <2>1. 2 \in 1..Len(u) /\ \A j \in 1..(2 - 1) : u[j] # Colon
    BY <1>5, <1>11, <1>15, <1>16
  <2>2. Before(u, Colon) = SubSeq(u, 1, 2 - 1) /\ After(u, Colon) = SubSeq(u, 2 + 1, Len(u))
    BY <1>15, <1>16, <2>1, Cut
  <2>3. 2 - 1 = 1 /\ 2 + 1 = 3
    OBVIOUS
  <2> QED  BY <2>2, <2>3
<1>18. SubSeq(u, 1, 1) = <<c>>
  <2>1. \A i \in 1..1 : u[i] \in S
    BY <1>11, <1>15, ElementOfSeq
  <2>2. /\ SubSeq(u, 1, 1) \in Seq(S) /\ Len(SubSeq(u, 1, 1)) = 1
        /\ SubSeq(u, 1, 1)[1] = c
    BY <1>16, <2>1, SubSeqProperties
  <2>3. <<c>> \in Seq(S) /\ Len(<<c>>) = 1 /\ <<c>>[1] = c
    BY <1>16, <2>1
  <2>4. \A i \in 1..1 : SubSeq(u, 1, 1)[i] = <<c>>[i]
    BY <2>2, <2>3
  <2> HIDE DEF S
  <2> QED  BY <2>2, <2>3, <2>4, SeqEqual, Zenon
<1>19. SubSeq(u, 3, Len(u)) = t
  <2>1. \A i \in 3..Len(u) : u[i] \in S
    BY <1>11, <1>15, ElementOfSeq
  <2> DEFINE v == SubSeq(u, 3, Len(u))
  <2>2. /\ v \in Seq(S) /\ Len(v) = Len(t)
        /\ \A i \in 1..Len(t) : v[i] = u[2 + i]
    <3>1. /\ v \in Seq(S) /\ Len(v) = IF 3 <= Len(u) THEN Len(u) - 3 + 1 ELSE 0
          /\ \A i \in 1..(Len(u) - 3 + 1) : v[i] = u[3 + i - 1]
      BY <1>11, <1>15, <2>1, SubSeqProperties
    <3> QED  BY <1>11, <1>15, <3>1
  <2>3. \A i \in 1..Len(t) : v[i] = t[i]
    BY <1>16, <2>2
  <2> QED  BY <1>8, <2>2, <2>3, SeqEqual DEF t
<1>20. Parsed(p) = [from |-> <<c>>, text |-> t]
  BY <1>14, <1>17, <1>18, <1>19 DEF Parsed
<1> QED  BY <1>2, <1>3, <1>20 DEF p, t

\* What requests ask for.
LEMMA Arguments ==
  ASSUME NEW c \in Clients, NEW m \in Request(c)
  PROVE  /\ Tag(m) \in {"slogin", "rlogin"} => m.data \in {Name(c), BadName}
         /\ Tag(m) = "sendall" => m.data \in Texts
         /\ Tag(m) = "join" \/ c \in Receivers => (IsValidName(m.data) => m.data \in RoomNames)
<1>1. Name(c) = <<c>> /\ (IsValidName(Name(c)) => c \in Alnum /\ Name(c) \in RoomNames)
  BY DEF Name, IsValidName, RoomNames
<1>2. ~IsValidName(BadName)
  BY DEF BadName, IsValidName
<1>3. CASE \E n \in {Name(c), BadName} : m = Message("slogin", n) \/ m = Message("rlogin", n)
  BY <1>1, <1>2, <1>3, Tags DEF Message
<1>4. CASE \E n \in RoomNames \cup {BadName} : m = Message("join", n)
  BY <1>2, <1>4, Tags DEF Message
<1>5. CASE c \in Senders /\ \E t \in Texts : m = Command(t)
  <2>1. PICK t \in Texts : m = Command(t)
    BY <1>5
  <2>2. PICK l \in Typed : t = Trim(l)
    BY DEF Texts
  <2>3. Tag(m) \in {"quit", "leave", "join", "sendall"}
    BY <2>1, CommandTags
  <2>4. Tag(m) = "join" /\ IsValidName(m.data) => m.data \in RoomNames
    BY <2>1, <2>2, TypedAssumption
  <2>5. Tag(m) = "sendall" => m = Message("sendall", t)
    BY <2>1, Tags DEF Command
  <2>6. Message("sendall", t).data = t
    BY DEF Message
  <2> QED  BY <1>5, <2>3, <2>4, <2>5, <2>6, ClientsAssumption
<1> QED  BY <1>3, <1>4, <1>5 DEF Request

\* Answers and deliveries are what may be on its way to a receiver.
LEMMA MayBeSent ==
  /\ \A tag \in DOMAIN OkTo : AnswersTo(tag) \subseteq Sent
  /\ \A n \in RoomNames, said \in Sayings :
       DeliveryOf(n, said) \in Sent /\ Tag(DeliveryOf(n, said)) = "delivery"
BY Tags DEF Sent, Answer, DeliveryOf

\* A step that is about one client leaves what is said to the others as it was.
RoomTouches(c) ==
  /\ log' = log
  /\ \A r \in Receivers \ {c} :
       /\ cpc'[r] = cpc[r] /\ copen'[r] = copen[r] /\ asked'[r] = asked[r]
       /\ shown'[r] = shown[r] /\ down'[r] = down[r] /\ wpc'[r] = wpc[r]
       /\ room'[r] = room[r] /\ queue'[r] = queue[r] /\ since'[r] = since[r]

LEMMA OneReceiver ==
  ASSUME RoomInv, NEW c, RoomShape', RoomTouches(c),
         c \in Receivers => JoinExact(c)' /\ (IsIn(c)' => StreamAt(c)')
  PROVE  RoomInv'
<1>1. ASSUME NEW r \in Receivers, r # c
      PROVE  JoinExact(r)' /\ (IsIn(r)' => StreamAt(r)')
  <2>1. /\ log' = log /\ cpc'[r] = cpc[r] /\ copen'[r] = copen[r] /\ asked'[r] = asked[r]
        /\ shown'[r] = shown[r] /\ down'[r] = down[r] /\ wpc'[r] = wpc[r]
        /\ room'[r] = room[r] /\ queue'[r] = queue[r] /\ since'[r] = since[r]
    BY <1>1 DEF RoomTouches
  <2>2. JoinExact(r)'
    BY <2>1 DEF RoomInv, JoinExact
  <2>3. OnItsWay(r)' = OnItsWay(r) /\ Seen(r)' = Seen(r)
    BY <2>1 DEF OnItsWay, Seen
  <2>4. Owed(r)' = Owed(r)
    BY <2>3 DEF Owed
  <2>5. StreamAt(r) => StreamAt(r)'
    BY <2>1, <2>3, <2>4 DEF StreamAt
  <2>6. IsIn(r)' => IsIn(r)
    BY <2>1 DEF IsIn
  <2> QED  BY <2>2, <2>5, <2>6 DEF RoomInv
<1> QED  BY <1>1 DEF RoomInv

\* What the refinement mapping makes of a state.
Where == [r \in Receivers |-> IF IsIn(r) THEN room[r] ELSE Nowhere]

LEMMA Unseen ==
  ASSUME UNCHANGED <<log, since, shown>>, Where' = Where
  PROVE  UNCHANGED Abstract!vars
BY DEF Abstract!vars, Where

\* The end of a client takes it out of its room, if it was in one.
LEMMA MayLeave ==
  ASSUME NEW c \in Clients, UNCHANGED <<log, since, shown, room>>, IsIn(c)' => IsIn(c),
         \A r \in Receivers : r # c => copen'[r] = copen[r]
  PROVE  Abstract!Next \/ UNCHANGED Abstract!vars
<1>1. \A r \in Receivers : r # c => (IsIn(r)' <=> IsIn(r))
  BY DEF IsIn
<1>2. CASE c \in Receivers /\ IsIn(c) /\ ~IsIn(c)'
  <2>1. Where[c] # Nowhere
    BY <1>2 DEF Where, IsIn
  <2>2. Where' = [Where EXCEPT ![c] = Nowhere]
    BY <1>1, <1>2 DEF Where
  <2>3. Abstract!Leave(c)
    BY <2>1, <2>2 DEF Abstract!Leave, Where
  <2> QED  BY <1>2, <2>3 DEF Abstract!Next
<1>3. CASE c \in Receivers => (IsIn(c)' <=> IsIn(c))
  <2>1. Where' = Where
    BY <1>1, <1>3 DEF Where
  <2> QED  BY <2>1, Unseen
<1> QED  BY <1>2, <1>3

\* A step of the rooms' side of the system.
Maps == RoomInv' /\ (Abstract!Next \/ UNCHANGED Abstract!vars)

\* A client that ends, whatever it did before, says and shows nothing.
LEMMA EndMaps ==
  ASSUME Inv, RoomInv, NEW c \in Clients, copen' = [copen EXCEPT ![c] = FALSE],
         cpc'[c] \in {"failed", "done", "killed"},
         UNCHANGED <<up, shown, log, since, room, queue, wpc>>,
         \A r \in Receivers \ {c} :
           cpc'[r] = cpc[r] /\ asked'[r] = asked[r] /\ down'[r] = down[r],
         c \in Receivers => down'[c] \in Seq(Sent)
  PROVE  Maps
<1>1. Shape
  BY DEF Inv
<1>2. ~copen'[c] /\ \A d \in Clients : d # c => copen'[d] = copen[d]
  BY <1>1 DEF Shape
<1>3. RoomShape'
  BY DEF RoomInv, RoomShape
<1>4. RoomTouches(c)
  BY <1>2 DEF RoomTouches, Clients
<1>5. c \in Receivers => JoinExact(c)' /\ ~IsIn(c)'
  BY <1>2 DEF RoomInv, JoinExact, IsIn
<1>6. RoomInv'
  BY <1>3, <1>4, <1>5, OneReceiver
<1>7. IsIn(c)' => IsIn(c)
  BY <1>2 DEF IsIn
<1> QED  BY <1>2, <1>6, <1>7, MayLeave DEF Maps, Clients

\* A step of a client or its worker at which nobody says, shows, joins or leaves.
LEMMA QuietMaps ==
  ASSUME RoomInv, NEW c \in Clients, RoomShape', RoomTouches(c), UNCHANGED <<since, shown>>,
         c \in Receivers => /\ room'[c] = room[c] /\ (IsIn(c)' <=> IsIn(c))
                            /\ JoinExact(c)' /\ (IsIn(c)' => StreamAt(c)')
  PROVE  Maps
<1>1. RoomInv'
  BY OneReceiver
<1>2. ASSUME NEW r \in Receivers
      PROVE  (IsIn(r)' <=> IsIn(r)) /\ room'[r] = room[r]
  BY DEF RoomTouches, IsIn
<1>3. Where' = Where
  BY <1>2 DEF Where
<1> QED  BY <1>1, <1>3, Unseen DEF Maps, RoomTouches

\* A receiver whose stream is not touched.
LEMMA SameStream ==
  ASSUME NEW c \in Receivers, IsIn(c) => StreamAt(c), IsIn(c)' => IsIn(c),
         log' = log, room'[c] = room[c], since'[c] = since[c], shown'[c] = shown[c],
         queue'[c] = queue[c], OnItsWay(c)' = OnItsWay(c), wpc'[c] = "r_wait" => wpc[c] = "r_wait"
  PROVE  IsIn(c)' => StreamAt(c)'
<1>1. Seen(c)' = Seen(c) /\ Owed(c)' = Owed(c)
  BY DEF Seen, Owed
<1> QED  BY <1>1 DEF StreamAt

\* What is written to the server is a request, and what it reads is one.
LEMMA UpGrows ==
  ASSUME Inv, RoomInv, NEW c \in Clients, NEW m \in Request(c), Sends(c, m)
  PROVE  \A d \in Clients : up'[d] \in Seq(Request(d))
<1>1. \A d \in Clients : up[d] \in Seq(Request(d)) /\ DOMAIN up = Clients
  BY DEF Inv, Shape, RoomInv, RoomShape
<1>2. Append(up[c], m) \in Seq(Request(c))
  BY <1>1, AppendProperties
<1> QED  BY <1>1, <1>2 DEF Sends

LEMMA UpShrinks ==
  ASSUME Inv, RoomInv, NEW c \in Clients, NEW at, Reads(c, at)
  PROVE  /\ \A d \in Clients : up'[d] \in Seq(Request(d))
         /\ Head(up[c]) \in Request(c)
<1>1. \A d \in Clients : up[d] \in Seq(Request(d)) /\ DOMAIN up = Clients
  BY DEF Inv, Shape, RoomInv, RoomShape
<1>2. Head(up[c]) \in Request(c) /\ Tail(up[c]) \in Seq(Request(c))
  BY <1>1, HeadTailProperties DEF Reads
<1> QED  BY <1>1, <1>2 DEF Reads

\* The clients.
LEMMA EndsMap ==
  ASSUME Inv, RoomInv, NEW c \in Clients,
         \/ ConnectFails(c) \/ Killed(c) \/ Refused(c) \/ Unanswered(c) \/ EndOfInput(c) \/ Ends(c)
         \/ \E l \in Typed : RequestFails(c, l)
         \/ Answered(c) /\ asked[c] = "quit"
  PROVE  Maps
<1>1. Shape /\ RoomShape
  BY DEF Inv, RoomInv
<1>2. \E status \in {"failed", "done", "killed"} : Exits(c, status)
  BY DEF ConnectFails, Killed, Refused, Unanswered, EndOfInput, Ends, RequestFails, Answered
<1>3. copen' = [copen EXCEPT ![c] = FALSE] /\ cpc'[c] \in {"failed", "done", "killed"}
      /\ \A d \in Clients : d # c => cpc'[d] = cpc[d]
  BY <1>1, <1>2 DEF Exits, Shape
<1>4. UNCHANGED <<asked, up, shown, log, since, room, queue, wpc>>
  BY DEF ConnectFails, Killed, Refused, Unanswered, EndOfInput, Ends, RequestFails, Answered,
     server, rooms
<1>5. down' = down \/ Receives(c)
  BY DEF ConnectFails, Killed, Refused, Unanswered, EndOfInput, Ends, RequestFails, Answered
<1>6. (\A d \in Clients : d # c => down'[d] = down[d])
      /\ (c \in Receivers => down'[c] \in Seq(Sent))
  <2>1. CASE down' = down
    BY <1>1, <2>1 DEF RoomShape
  <2>2. CASE Receives(c)
    <3>1. down'[c] = Tail(down[c]) /\ \A d \in Clients : d # c => down'[d] = down[d]
      BY <1>1, <2>2 DEF Receives, Shape
    <3>2. c \in Receivers => Tail(down[c]) \in Seq(Sent)
      BY <1>1, <2>2, HeadTailProperties DEF Receives, RoomShape
    <3> QED  BY <3>1, <3>2
  <2> QED  BY <1>5, <2>1, <2>2
<1> QED  BY <1>3, <1>4, <1>6, EndMaps DEF Clients

LEMMA ConnectsMap ==
  ASSUME Inv, RoomInv, NEW c \in Clients, NEW name \in {Name(c), BadName}, Connects(c, name)
  PROVE  Maps
<1> DEFINE m == Message(IF c \in Senders THEN "slogin" ELSE "rlogin", name)
<1>1. Shape /\ RoomShape /\ Paired(c)
  BY DEF Inv, RoomInv
<1>2. m \in Request(c) /\ Tag(m) \in Joining
  BY Tags DEF Request, Joining
<1>3. /\ Sends(c, m) /\ cpc[c] = "start" /\ copen' = [copen EXCEPT ![c] = TRUE]
      /\ UNCHANGED <<shown, down, wpc, room, queue, log, since>>
  BY DEF Connects, rooms
<1> HIDE DEF m
<1>4. cpc' = [cpc EXCEPT ![c] = "await"] /\ asked' = [asked EXCEPT ![c] = Tag(m)]
  BY <1>3 DEF Sends
<1>5. RoomShape'
  BY <1>1, <1>2, <1>3, UpGrows DEF RoomShape
<1>6. RoomTouches(c)
  BY <1>1, <1>3, <1>4 DEF RoomTouches, Shape, Clients
<1>7. asked'[c] # "join" /\ cpc'[c] = "await"
  BY <1>1, <1>2, <1>4 DEF Shape, Joining
<1>8. c \in Receivers => JoinExact(c)' /\ ~IsIn(c) /\ ~IsIn(c)'
  BY <1>3, <1>7 DEF RoomInv, JoinExact, IsIn
<1> QED  BY <1>3, <1>5, <1>6, <1>8, QuietMaps

LEMMA ReceiverJoinsMap ==
  ASSUME Inv, RoomInv, NEW c \in Receivers, c \in Clients,
         NEW name \in RoomNames \cup {BadName}, ReceiverJoins(c, name)
  PROVE  Maps
<1> DEFINE m == Message("join", name)
<1>1. Shape /\ RoomShape
  BY DEF Inv, RoomInv
<1>2. m \in Request(c) /\ Tag(m) = "join"
  BY Tags, ClientsAssumption DEF Request
<1>3. /\ Sends(c, m) /\ Receives(c) /\ cpc[c] = "await" /\ asked[c] = "rlogin"
      /\ UNCHANGED <<copen, shown, wpc, room, queue, log, since>>
  BY DEF ReceiverJoins, server, rooms
<1> HIDE DEF m
<1>4. cpc' = [cpc EXCEPT ![c] = "await"] /\ asked' = [asked EXCEPT ![c] = Tag(m)]
  BY <1>3 DEF Sends
<1>5. down' = [down EXCEPT ![c] = <<>>]
  BY <1>1, <1>3, Takes DEF Receives, Shape
<1>6. RoomShape'
  BY <1>1, <1>2, <1>3, <1>5, UpGrows, EmptySeq DEF Shape, RoomShape
<1>7. RoomTouches(c)
  BY <1>1, <1>3, <1>4, <1>5 DEF RoomTouches, Shape, Clients
<1>8. cpc'[c] = "await" /\ down'[c] = <<>>
  BY <1>1, <1>4, <1>5 DEF Shape
<1>9. JoinExact(c)' /\ ~IsIn(c) /\ ~IsIn(c)'
  BY <1>3, <1>8 DEF RoomInv, JoinExact, IsIn
<1> QED  BY <1>3, <1>6, <1>7, <1>9, QuietMaps

LEMMA AnsweredMap ==
  ASSUME Inv, RoomInv, NEW c \in Clients, Answered(c), asked[c] # "quit"
  PROVE  Maps
<1>1. Shape /\ RoomShape
  BY DEF Inv, RoomInv
<1>2. /\ cpc[c] = "await" /\ asked[c] # "rlogin" /\ Receives(c) /\ ~IsRefused(c)
      /\ UNCHANGED <<asked, copen, shown, up, wpc, room, queue, log, since>>
      /\ cpc' = [cpc EXCEPT ![c] = IF c \in Receivers THEN "listen" ELSE "prompt"]
  BY DEF Answered, Goes, server, rooms
<1>3. RoomTouches(c)
  BY <1>1, <1>2 DEF RoomTouches, Shape, Receives, Clients
<1>4. RoomShape'
  BY <1>1, <1>2, HeadTailProperties DEF Shape, RoomShape, Receives
<1>5. ASSUME c \in Receivers
      PROVE  /\ IsIn(c)' <=> IsIn(c)
             /\ JoinExact(c)' /\ (IsIn(c)' => StreamAt(c)')
  <2>1. asked[c] = "join" /\ Tag(Head(down[c])) = "ok" /\ down[c] # <<>>
    BY <1>2, <1>5, Takes, ClientsAssumption DEF Requested, IsRefused, Receives
  <2>2. cpc'[c] = "listen" /\ down'[c] = Tail(down[c])
    BY <1>1, <1>2, <1>5 DEF Shape, Receives
  <2>3. JoinExact(c) /\ (IsIn(c) => StreamAt(c))
    BY <1>5 DEF RoomInv
  <2>4. JoinExact(c)'
    BY <1>2, <2>1, <2>2, <2>3 DEF JoinExact
  <2>5. OnItsWay(c)' = OnItsWay(c)
    BY <1>2, <2>2 DEF OnItsWay
  <2>6. IsIn(c)' <=> IsIn(c)
    BY <1>2 DEF IsIn
  <2> QED  BY <1>2, <1>5, <2>3, <2>4, <2>5, <2>6, SameStream
<1> QED  BY <1>2, <1>3, <1>4, <1>5, QuietMaps

LEMMA TypesNothingMap ==
  ASSUME RoomInv, NEW c \in Senders, NEW l, TypesNothing(c, l)
  PROVE  Maps
<1>1. UNCHANGED <<cpc, copen, asked, shown, up, down, wpc, room, queue, log, since>>
  BY DEF TypesNothing, server, rooms
<1>2. RoomTouches(c) /\ RoomShape'
  BY <1>1 DEF RoomTouches, RoomInv, RoomShape
<1> QED  BY <1>1, <1>2, QuietMaps, ClientsAssumption DEF Clients

LEMMA RequestsMap ==
  ASSUME Inv, RoomInv, NEW c \in Senders, NEW l \in Typed, Requests(c, l)
  PROVE  Maps
<1> DEFINE m == Command(Trim(l))
<1>1. Shape /\ RoomShape /\ c \in Clients
  BY DEF Inv, RoomInv, Clients
<1>2. m \in Request(c)
  BY DEF Request, Texts
<1>3. Sends(c, m) /\ UNCHANGED <<copen, shown, down, wpc, room, queue, log, since>>
  BY DEF Requests, server, rooms
<1> HIDE DEF m
<1>4. RoomTouches(c)
  BY <1>1, <1>3 DEF RoomTouches, Shape, Sends, Clients
<1>5. RoomShape'
  BY <1>1, <1>2, <1>3, UpGrows DEF RoomShape
<1> QED  BY <1>1, <1>3, <1>4, <1>5, QuietMaps, ClientsAssumption

\* A message on its way is shown: it is the next of the log.
LEMMA ShowsMap ==
  ASSUME Inv, RoomInv, NEW c \in Receivers, Shows(c)
  PROVE  Maps
<1> DEFINE d == down[c]
           said == log[room[c]][Abstract!Position(c)]
<1>1. Shape /\ RoomShape /\ c \in Clients /\ Paired(c) /\ JoinExact(c)
  BY DEF Inv, RoomInv, Clients
<1>2. /\ cpc[c] = "listen" /\ Receives(c)
      /\ shown' = [shown EXCEPT ![c] = Append(shown[c], Parsed(Head(d).data))]
      /\ UNCHANGED <<cpc, copen, asked, up, wpc, room, queue, log, since>>
  BY DEF Shows, server, rooms
<1>3. /\ d \in Seq(Sent) /\ d # <<>> /\ Len(d) \in Nat \ {0} /\ Head(d) = d[1]
      /\ Tail(d) \in Seq(Sent) /\ Len(Tail(d)) = Len(d) - 1
      /\ \A i \in 1..Len(Tail(d)) : Tail(d)[i] = d[i + 1]
  BY <1>1, <1>2, HeadTailProperties, EmptySeq DEF RoomShape, Receives
<1>4. down' = [down EXCEPT ![c] = Tail(d)]
  BY <1>2 DEF Receives
<1>5. IsIn(c) /\ room[c] \in RoomNames /\ room[c] # Nowhere /\ OnItsWay(c) = d /\ StreamAt(c)
  BY <1>1, <1>2 DEF IsIn, Paired, JoinExact, RoomShape, OnItsWay, RoomInv
<1>6. /\ log[room[c]] \in Seq(Sayings) /\ Len(log[room[c]]) \in Nat
      /\ shown[c] \in Seq(Sayings) /\ Len(shown[c]) \in Nat /\ since[c] \in Nat
  BY <1>1, <1>5, LenProperties DEF RoomShape
<1>7. Seen(c) \in Nat /\ Abstract!Position(c) = Seen(c) + 1
  BY <1>6 DEF Seen, Abstract!Position
<1>8. Seen(c) + Len(d) <= Len(log[room[c]]) /\ d[1] = DeliveryOf(room[c], log[room[c]][Seen(c) + 1])
  BY <1>3, <1>5 DEF StreamAt, Owed
<1>9. Seen(c) + 1 \in 1..Len(log[room[c]])
  BY <1>3, <1>6, <1>7, <1>8
<1>10. said \in Sayings /\ Parsed(Head(d).data) = said
  <2>1. said \in Sayings
    BY <1>6, <1>7, <1>9, ElementOfSeq
  <2> QED  BY <1>3, <1>5, <1>7, <1>8, <2>1, ParsedDelivery
<1>11. shown' = [shown EXCEPT ![c] = Append(shown[c], said)]
  BY <1>2, <1>10
<1> HIDE DEF said, d
<1>12. RoomShape'
  BY <1>1, <1>2, <1>3, <1>4, <1>6, <1>10, <1>11, AppendProperties DEF Shape, RoomShape
<1>13. RoomTouches(c)
  BY <1>1, <1>2, <1>4, <1>11 DEF RoomTouches, Shape, RoomShape, Clients
<1>14. JoinExact(c)'
  BY <1>1, <1>2 DEF JoinExact
<1>15. StreamAt(c)'
  <2>1. Len(shown'[c]) = Len(shown[c]) + 1
    BY <1>1, <1>6, <1>10, <1>11, AppendProperties DEF RoomShape
  <2>2. OnItsWay(c)' = Tail(d)
    BY <1>1, <1>2, <1>4 DEF OnItsWay, Shape
  <2>3. Seen(c)' = Seen(c) + 1
    BY <1>2, <1>6, <2>1 DEF Seen
  <2>4. Owed(c)' = Owed(c)
    BY <1>3, <1>5, <1>7, <2>2, <2>3 DEF Owed
  <2>5. \A i \in 1..Len(Tail(d)) :
          Tail(d)[i] = DeliveryOf(room[c], log[room[c]][(Seen(c) + 1) + i])
    <3> SUFFICES ASSUME NEW i \in 1..Len(Tail(d))
                 PROVE  Tail(d)[i] = DeliveryOf(room[c], log[room[c]][(Seen(c) + 1) + i])
      OBVIOUS
    <3>1. i + 1 \in 1..Len(d) /\ Tail(d)[i] = d[i + 1]
      BY <1>3
    <3>2. d[i + 1] = DeliveryOf(room[c], log[room[c]][Seen(c) + (i + 1)])
      BY <1>5, <3>1 DEF StreamAt
    <3>3. Seen(c) + (i + 1) = (Seen(c) + 1) + i
      BY <1>7
    <3> QED  BY <3>1, <3>2, <3>3
  <2> QED  BY <1>2, <1>5, <2>2, <2>3, <2>4, <2>5 DEF StreamAt
<1>16. RoomInv'
  BY <1>12, <1>13, <1>14, <1>15, OneReceiver
<1>17. Abstract!Deliver(c)
  <2>1. Where[c] = room[c] /\ Where' = Where
    BY <1>2, <1>5 DEF Where, IsIn
  <2>2. Where[c] # Nowhere /\ Abstract!Position(c) <= Len(log[Where[c]])
    BY <1>5, <1>7, <1>9, <2>1
  <2>3. shown' = [shown EXCEPT ![c] = Append(shown[c], log[Where[c]][Abstract!Position(c)])]
    BY <1>11, <2>1 DEF said
  <2> QED
    BY <1>2, <2>1, <2>2, <2>3 DEF Abstract!Deliver, Abstract!IsOwed, Where
<1> QED  BY <1>16, <1>17 DEF Maps, Abstract!Next

\* The server.
LEMMA AcceptsMap ==
  ASSUME Inv, RoomInv, NEW c \in Clients, NEW step \in {"login", "orphan"}, Accepts(c, step)
  PROVE  Maps
<1>1. Shape /\ RoomShape
  BY DEF Inv, RoomInv
<1>2. /\ wpc[c] = "none" /\ wpc' = [wpc EXCEPT ![c] = step]
      /\ UNCHANGED <<cpc, copen, asked, shown, up, down, room, queue, log, since>>
  BY DEF Accepts, client, rooms
<1>3. RoomTouches(c) /\ RoomShape'
  BY <1>1, <1>2, ClientsAssumption DEF RoomTouches, Shape, RoomShape, Clients
<1>4. wpc'[c] = step
  BY <1>1, <1>2 DEF Shape
<1>5. ASSUME c \in Receivers
      PROVE  /\ IsIn(c)' <=> IsIn(c)
             /\ JoinExact(c)' /\ ~IsIn(c)'
  BY <1>2, <1>4, <1>5 DEF RoomInv, JoinExact, IsIn
<1> QED  BY <1>2, <1>3, <1>5, QuietMaps

\* A worker that answers, and neither joins nor says anything.
LEMMA AnswersMap ==
  ASSUME Inv, RoomInv, NEW c \in Clients, NEW at, NEW answer \in Answer, NEW next,
         Reads(c, at), Answers(c, answer, next), at \in {"login", "r_join", "s_chat"},
         UNCHANGED <<queue, log, since>>,
         c \in Receivers => room' = room /\ next \notin {"r_wait", "s_chat"},
         c \in Receivers /\ cpc[c] = "await" /\ Tag(answer) = "ok" => asked[c] # "join",
         room' \in [Clients -> RoomNames \cup {Nowhere}],
         \A d \in Clients : d # c => room'[d] = room[d],
         c \in Senders /\ next = "s_chat" => c \in Alnum
  PROVE  Maps
<1>1. Shape /\ RoomShape
  BY DEF Inv, RoomInv
<1>2. /\ wpc[c] = at /\ wpc' = [wpc EXCEPT ![c] = next]
      /\ down' = [down EXCEPT ![c] = Append(down[c], answer)]
      /\ UNCHANGED <<cpc, copen, asked, shown, queue, log, since>>
  BY DEF Reads, Answers, client
<1>3. ASSUME c \in Receivers PROVE Append(down[c], answer) \in Seq(Sent)
  <2>1. answer \in Sent
    BY DEF Sent
  <2>2. down[c] \in Seq(Sent)
    BY <1>1, <1>3 DEF RoomShape
  <2> QED  BY <2>1, <2>2, AppendProperties
<1>4. RoomShape'
  BY <1>1, <1>2, <1>3, UpShrinks DEF Shape, RoomShape
<1>5. RoomTouches(c)
  BY <1>1, <1>2 DEF RoomTouches, Shape, Clients
<1>6. ASSUME c \in Receivers
      PROVE  /\ room'[c] = room[c] /\ (IsIn(c)' <=> IsIn(c))
             /\ JoinExact(c)' /\ ~IsIn(c)'
  <2>1. JoinExact(c) /\ room[c] = Nowhere /\ queue[c] = <<>>
    BY <1>2, <1>6 DEF RoomInv, JoinExact
  <2>2. wpc'[c] = next
    BY <1>1, <1>2 DEF Shape
  <2>3. cpc[c] = "await" => down'[c] = <<answer>>
    <3>1. cpc[c] = "await" => down[c] = <<>>
      BY ReadsAsked DEF Pending
    <3> QED  BY <1>1, <1>2, <3>1, Single DEF Shape
  <2>4. JoinExact(c)'
    BY <1>2, <1>6, <2>1, <2>2, <2>3, Single DEF JoinExact
  <2> QED  BY <1>2, <1>6, <2>1, <2>4 DEF IsIn
<1> QED  BY <1>2, <1>4, <1>5, <1>6, QuietMaps

\* The answers of the server are answers.
LEMMA AnswersGiven ==
  /\ {Ok("Logged in as sender"), Ok("Logged in as receiver"), Ok("Joined room"),
      Ok("Left room"), Ok("Message sent"), Ok("Goodbye")} \subseteq Answer
  /\ {Err("Invalid username"), Err("Invalid room name"), Err("Not in a room")} \subseteq Answer
  /\ Answer \subseteq Sent
<1>1. {"slogin", "rlogin", "join", "leave", "sendall", "quit"} \subseteq DOMAIN OkTo
  BY DEF OkTo
<1>2. \A tag \in DOMAIN OkTo : AnswersTo(tag) \subseteq Answer
  BY DEF Answer
<1>3. Answer \subseteq Sent
  BY DEF Sent
<1> QED  BY <1>1, <1>2, <1>3, AnswersAre

LEMMA LoginMaps ==
  ASSUME Inv, RoomInv, NEW c \in Clients, LoginRefused(c) \/ LoggedIn(c)
  PROVE  Maps
<1>1. Reads(c, "login") /\ UNCHANGED rooms
  BY DEF LoginRefused, LoggedIn
<1>2. room \in [Clients -> RoomNames \cup {Nowhere}]
  BY DEF RoomInv, RoomShape
<1>3. cpc[c] = "await" => asked[c] # "join"
  BY <1>1, ReadsAsked DEF Reader, Joining
<1>4. CASE LoginRefused(c)
  BY <1>1, <1>2, <1>3, <1>4, AnswersMap, AnswersGiven, Tags DEF LoginRefused, rooms
<1>5. CASE LoggedIn(c) /\ Asks(c, "slogin")
  <2>1. Argument(c) \in {Name(c), BadName}
    BY <1>1, <1>5, UpShrinks, Arguments DEF Asks, Argument
  <2>2. c \in Alnum
    <3>1. IsValidName(Argument(c))
      BY <1>5 DEF LoggedIn
    <3>2. IsValidName(<<c>>) => c \in Alnum
      BY DEF IsValidName
    <3>3. ~IsValidName(<<>>)
      BY DEF IsValidName
    <3> QED  BY <2>1, <3>1, <3>2, <3>3 DEF Name, BadName
  <2>3. c \notin Receivers
    <3>1. Head(up[c]) \in Request(c) /\ Tag(Head(up[c])) = "slogin"
      BY <1>1, <1>5, UpShrinks DEF Asks
    <3> QED  BY <3>1, Tags, ClientsAssumption DEF Request
  <2>4. Answers(c, Ok("Logged in as sender"), "s_chat")
    BY <1>5 DEF LoggedIn, Asks
  <2> QED  BY <1>1, <1>2, <2>2, <2>3, <2>4, AnswersMap, AnswersGiven DEF rooms
<1>6. CASE LoggedIn(c) /\ Asks(c, "rlogin") /\ Answers(c, Ok("Logged in as receiver"), "r_join")
  BY <1>1, <1>2, <1>3, <1>6, AnswersMap, AnswersGiven DEF rooms
<1> QED  BY <1>4, <1>5, <1>6 DEF LoggedIn

LEMMA ReceiverRefusedMap ==
  ASSUME Inv, RoomInv, NEW c \in Receivers, ReceiverRefused(c)
  PROVE  Maps
<1>1. Reads(c, "r_join") /\ Answers(c, Err("Invalid room name"), "closed") /\ UNCHANGED rooms
  BY DEF ReceiverRefused
<1>2. room \in [Clients -> RoomNames \cup {Nowhere}] /\ c \in Clients
  BY DEF RoomInv, RoomShape, Clients
<1> QED  BY <1>1, <1>2, AnswersMap, AnswersGiven, Tags DEF rooms

LEMMA ServesMap ==
  ASSUME Inv, RoomInv, NEW c \in Senders,
         SenderJoined(c) \/ Left(c) \/ RequestRefused(c) \/ QuitAnswered(c)
  PROVE  Maps
<1>1. c \in Clients /\ c \notin Receivers /\ Reads(c, "s_chat")
  BY ClientsAssumption DEF Clients, SenderJoined, Left, RequestRefused, QuitAnswered
<1>2. c \in Alnum /\ room \in [Clients -> RoomNames \cup {Nowhere}]
  BY <1>1 DEF RoomInv, RoomShape, Reads
<1>3. UNCHANGED <<queue, log, since>>
  BY DEF SenderJoined, Left, RequestRefused, QuitAnswered, rooms
<1>4. /\ room' \in [Clients -> RoomNames \cup {Nowhere}]
      /\ \A d \in Clients : d # c => room'[d] = room[d]
  <2>1. CASE SenderJoined(c)
    <3>1. Argument(c) \in RoomNames
      BY <1>1, <2>1, UpShrinks, Arguments DEF SenderJoined, Asks, Argument
    <3> QED  BY <1>2, <2>1, <3>1 DEF SenderJoined
  <2>2. CASE Left(c)
    BY <1>2, <2>2 DEF Left
  <2>3. CASE RequestRefused(c) \/ QuitAnswered(c)
    BY <1>2, <2>3 DEF RequestRefused, QuitAnswered, rooms
  <2> QED  BY <2>1, <2>2, <2>3
<1>5. \E answer \in Answer : \E next : Answers(c, answer, next)
  BY AnswersGiven DEF SenderJoined, Left, RequestRefused, QuitAnswered
<1> QED  BY <1>1, <1>2, <1>3, <1>4, <1>5, AnswersMap

LEMMA ReadsEndMap ==
  ASSUME Inv, RoomInv, NEW c \in Clients, ReadsEnd(c)
  PROVE  Maps
<1>1. Shape /\ RoomShape /\ Paired(c)
  BY DEF Inv, RoomInv
<1>2. /\ wpc[c] \in {"login", "r_join", "s_chat"} /\ ~copen[c]
      /\ wpc' = [wpc EXCEPT ![c] = "closed"]
      /\ UNCHANGED <<cpc, copen, asked, shown, up, down, room, queue, log, since>>
  BY DEF ReadsEnd, client, rooms
<1>3. RoomTouches(c) /\ RoomShape'
  BY <1>1, <1>2 DEF RoomTouches, Shape, RoomShape, Clients
<1>4. ASSUME c \in Receivers
      PROVE  (IsIn(c)' <=> IsIn(c)) /\ JoinExact(c)' /\ ~IsIn(c)'
  <2>1. wpc'[c] = "closed"
    BY <1>1, <1>2 DEF Shape
  <2> QED  BY <1>2, <1>4, <2>1 DEF RoomInv, JoinExact, IsIn
<1> QED  BY <1>2, <1>3, <1>4, QuietMaps

\* A receiver joins, and has seen what was said before that, which is nothing to it.
LEMMA ReceiverJoinedMap ==
  ASSUME Inv, RoomInv, NEW c \in Receivers, ReceiverJoined(c)
  PROVE  Maps
<1> DEFINE ok == Ok("Joined room")
<1>1. Shape /\ RoomShape /\ c \in Clients /\ Paired(c) /\ JoinExact(c)
  BY DEF Inv, RoomInv, Clients
<1>0. PICK n \in RoomNames : n = Argument(c) /\ n # Nowhere
  <2>1. Argument(c) \in RoomNames
    BY <1>1, UpShrinks, Arguments DEF ReceiverJoined, Argument
  <2> QED  BY <2>1, NamesAssumption
<1>2. /\ Reads(c, "r_join") /\ Answers(c, ok, "r_wait")
      /\ room' = [room EXCEPT ![c] = n]
      /\ since' = [since EXCEPT ![c] = IF copen[c] THEN Len(log[n]) ELSE since[c]]
      /\ UNCHANGED <<queue, log>>
  BY <1>0 DEF ReceiverJoined
<1>3. /\ wpc[c] = "r_join" /\ wpc' = [wpc EXCEPT ![c] = "r_wait"]
      /\ down' = [down EXCEPT ![c] = Append(down[c], ok)]
      /\ UNCHANGED <<cpc, copen, asked, shown>>
  BY <1>2 DEF Reads, Answers, client
<1>4. n \in RoomNames /\ n # Nowhere
  BY <1>0
<1>5. Len(log[n]) \in Nat /\ log[n] \in Seq(Sayings)
  BY <1>1, <1>4, LenProperties DEF RoomShape
<1>6. room[c] = Nowhere /\ queue[c] = <<>> /\ cpc[c] # "listen" /\ cpc[c] # "prompt"
  BY <1>1, <1>3, ClientsAssumption DEF JoinExact, Paired
<1>7. cpc[c] = "await" => asked[c] = "join" /\ down'[c] = <<ok>>
  <2>1. ASSUME cpc[c] = "await" PROVE asked[c] = "join" /\ down[c] = <<>>
    <3>1. asked[c] \in Requested(c) /\ Pending(c) /\ "r_join" \in Reader(c)
      BY <1>1, <1>2, <2>1, ReadsAsked
    <3>2. asked[c] \notin Joining
      BY <3>1 DEF Reader
    <3> QED  BY <3>1, <3>2, ClientsAssumption DEF Pending, Requested, Joining
  <2> QED  BY <1>1, <1>3, <2>1, Single DEF Shape
<1>8. RoomShape'
  <2>1. ok \in Sent /\ down[c] \in Seq(Sent)
    BY <1>1, AnswersGiven DEF RoomShape
  <2>2. Append(down[c], ok) \in Seq(Sent)
    BY <2>1, AppendProperties
  <2> HIDE DEF ok
  <2>3. \A r \in Receivers : down'[r] \in Seq(Sent)
    BY <1>1, <1>3, <2>2 DEF Shape, RoomShape, Clients
  <2>4. \A d \in Senders : wpc'[d] = "s_chat" => d \in Alnum
    BY <1>1, <1>3, ClientsAssumption DEF Shape, RoomShape
  <2>5. since' \in [Receivers -> Nat]
    BY <1>1, <1>2, <1>5 DEF RoomShape
  <2>6. room' \in [Clients -> RoomNames \cup {Nowhere}]
    BY <1>1, <1>2, <1>4 DEF RoomShape
  <2> QED  BY <1>1, <1>2, <1>3, <2>3, <2>4, <2>5, <2>6, UpShrinks DEF RoomShape
<1>9. RoomTouches(c)
  BY <1>1, <1>2, <1>3 DEF RoomTouches, Shape, RoomShape, Clients
<1>10. wpc'[c] = "r_wait" /\ room'[c] = n
  BY <1>1, <1>2, <1>3 DEF Shape, RoomShape
<1>11. cpc[c] = "start" => wpc[c] # "r_join"
  BY <1>1 DEF Paired
<1>12. JoinExact(c)'
  <2>1. cpc[c] = "await" => down'[c] # <<>> /\ Tag(Head(down'[c])) = "ok"
    <3>1. Head(<<ok>>) = ok /\ <<ok>> # <<>> /\ Tag(ok) = "ok"
      BY Single, Tags
    <3> HIDE DEF ok
    <3> QED  BY <1>7, <3>1
  <2> QED  BY <1>1, <1>3, <1>4, <1>6, <1>7, <1>10, <1>11, <2>1 DEF JoinExact
<1>13. ASSUME copen[c]
       PROVE  cpc[c] = "await" /\ shown[c] = <<>> /\ since'[c] = Len(log[n])
  BY <1>1, <1>2, <1>6, <1>13 DEF Paired, JoinExact, RoomShape
<1>14. IsIn(c)' => StreamAt(c)'
  <2> SUFFICES ASSUME copen[c] PROVE StreamAt(c)'
    BY <1>3 DEF IsIn
  <2>1. OnItsWay(c)' = <<>>
    BY <1>3, <1>7, <1>13, Single DEF OnItsWay
  <2>2. Len(shown'[c]) = 0 /\ Len(OnItsWay(c)') = 0 /\ Len(queue'[c]) = 0
    BY <1>2, <1>3, <1>6, <1>13, <2>1, EmptySeq
  <2>3. Seen(c)' = Len(log[n]) /\ Owed(c)' = Len(log[n])
    BY <1>5, <1>13, <2>2 DEF Seen, Owed
  <2>4. log' = log /\ log'[room'[c]] = log[n]
    BY <1>2, <1>10
  <2>5. /\ Owed(c)' <= Len(log[n]) /\ Owed(c)' + Len(queue'[c]) = Len(log[n])
        /\ 1..Len(OnItsWay(c)') = {} /\ 1..Len(queue'[c]) = {}
    BY <1>5, <2>2, <2>3
  <2> QED  BY <2>4, <2>5 DEF StreamAt
<1>15. RoomInv'
  BY <1>8, <1>9, <1>12, <1>14, OneReceiver
<1>16. CASE ~copen[c]
  <2>1. since' = since
    BY <1>1, <1>2, <1>16 DEF RoomShape
  <2>2. Where' = Where
    BY <1>1, <1>2, <1>3, <1>16 DEF Where, IsIn, RoomShape, Clients
  <2> QED  BY <1>2, <1>3, <1>15, <2>1, <2>2, Unseen DEF Maps
<1>17. CASE copen[c]
  <2>1. Where[c] = Nowhere /\ shown[c] = <<>>
    BY <1>6, <1>13, <1>17 DEF Where
  <2>2. Where' = [Where EXCEPT ![c] = n]
    <3>1. IsIn(c)' /\ room'[c] = n
      BY <1>3, <1>4, <1>10, <1>17 DEF IsIn
    <3>2. \A r \in Receivers : r # c => (IsIn(r)' <=> IsIn(r)) /\ room'[r] = room[r]
      BY <1>9 DEF RoomTouches, IsIn
    <3> QED  BY <3>1, <3>2 DEF Where
  <2>3. Abstract!Join(c, n)
    BY <1>2, <1>3, <1>17, <2>1, <2>2 DEF Abstract!Join, Where
  <2> QED  BY <1>15, <2>3 DEF Maps, Abstract!Next
<1> QED  BY <1>16, <1>17

\* What is said in a room is put at the end of its log and, for every receiver
\* in the room whose worker is at work, behind all it is owed.
LEMMA SaidMap ==
  ASSUME Inv, RoomInv, NEW c \in Senders, Said(c)
  PROVE  Maps
<1>1. Shape /\ RoomShape /\ c \in Clients /\ c \notin Receivers
  BY ClientsAssumption DEF Inv, RoomInv, Clients
<1>2. PICK n \in RoomNames : room[c] = n
  BY <1>1 DEF Said, RoomShape
<1>3. PICK said \in Sayings : said = [from |-> Name(c), text |-> Argument(c)]
  <2>1. Argument(c) \in Texts
    BY <1>1, UpShrinks, Arguments DEF Said, Asks, Argument
  <2>2. c \in Alnum
    BY <1>1 DEF Said, Reads, RoomShape
  <2> QED  BY <2>1, <2>2 DEF Sayings
<1>4. /\ Reads(c, "s_chat") /\ Answers(c, Ok("Message sent"), "s_chat")
      /\ log' = [log EXCEPT ![n] = Append(log[n], said)]
      /\ queue' = [r \in Receivers |-> IF r \in Members(n) THEN Append(queue[r], said)
                                       ELSE queue[r]]
      /\ UNCHANGED <<room, since>>
  BY <1>2, <1>3 DEF Said
<1>5. /\ UNCHANGED <<cpc, copen, asked, shown>>
      /\ \A r \in Receivers : down'[r] = down[r] /\ wpc'[r] = wpc[r]
      /\ \A d \in Clients : wpc'[d] = wpc[d]
  BY <1>1, <1>4 DEF Reads, Answers, client, Shape, Clients
<1>6. /\ log[n] \in Seq(Sayings) /\ Len(log[n]) \in Nat
      /\ log'[n] \in Seq(Sayings) /\ Len(log'[n]) = Len(log[n]) + 1
      /\ log'[n][Len(log[n]) + 1] = said
      /\ \A i \in 1..Len(log[n]) : log'[n][i] = log[n][i]
      /\ \A m \in RoomNames : m # n => log'[m] = log[m]
  <2>1. log[n] \in Seq(Sayings) /\ Len(log[n]) \in Nat
    BY <1>1, LenProperties DEF RoomShape
  <2>2. log'[n] = Append(log[n], said) /\ \A m \in RoomNames : m # n => log'[m] = log[m]
    BY <1>1, <1>4 DEF RoomShape
  <2> QED  BY <2>1, <2>2, AppendProperties
<1>7. ASSUME NEW r \in Receivers
      PROVE  /\ queue[r] \in Seq(Sayings) /\ Len(queue[r]) \in Nat /\ queue'[r] \in Seq(Sayings)
             /\ r \in Members(n) =>
                  /\ Len(queue'[r]) = Len(queue[r]) + 1 /\ queue'[r][Len(queue[r]) + 1] = said
                  /\ \A i \in 1..Len(queue[r]) : queue'[r][i] = queue[r][i]
             /\ r \notin Members(n) => queue'[r] = queue[r]
  <2>1. queue[r] \in Seq(Sayings) /\ Len(queue[r]) \in Nat
    BY <1>1, LenProperties DEF RoomShape
  <2>2. queue'[r] = IF r \in Members(n) THEN Append(queue[r], said) ELSE queue[r]
    BY <1>4
  <2> QED  BY <2>1, <2>2, AppendProperties
<1>8. RoomShape'
  <2>1. log' \in [RoomNames -> Seq(Sayings)]
    BY <1>1, <1>4, <1>6 DEF RoomShape
  <2>2. queue' \in [Receivers -> Seq(Sayings)]
    BY <1>4, <1>7
  <2> QED  BY <1>1, <1>4, <1>5, <2>1, <2>2, UpShrinks DEF RoomShape, Clients
<1>9. ASSUME NEW r \in Receivers
      PROVE  JoinExact(r)'
  BY <1>4, <1>5, <1>7 DEF RoomInv, JoinExact, Members
<1>10. ASSUME NEW r \in Receivers, IsIn(r)'
       PROVE  StreamAt(r)'
  <2>1. IsIn(r) /\ StreamAt(r) /\ room[r] \in RoomNames /\ r \in Clients
    BY <1>1, <1>4, <1>5, <1>10 DEF IsIn, RoomInv, RoomShape, Clients
  <2>2. OnItsWay(r)' = OnItsWay(r) /\ Seen(r)' = Seen(r)
    BY <1>4, <1>5 DEF OnItsWay, Seen
  <2>3. Owed(r)' = Owed(r)
    BY <2>2 DEF Owed
  <2>4. CASE room[r] # n
    <3>1. queue'[r] = queue[r]
      BY <1>7, <2>4 DEF Members
    <3>2. log'[room[r]] = log[room[r]] /\ room'[r] = room[r] /\ wpc'[r] = wpc[r]
      BY <1>4, <1>5, <1>6, <2>1, <2>4
    <3> QED  BY <2>1, <2>2, <2>3, <3>1, <3>2 DEF StreamAt
  <2>5. CASE room[r] = n
    <3> DEFINE d == OnItsWay(r)
               q == queue[r]
    <3>1. Seen(r) \in Nat /\ Len(d) \in Nat /\ Owed(r) = Seen(r) + Len(d)
      <4>1. down[r] \in Seq(Sent) /\ (cpc[r] = "await" => down[r] # <<>>)
        BY <1>1, <2>1 DEF RoomInv, RoomShape, JoinExact, IsIn
      <4>2. d \in Seq(Sent)
        BY <4>1, HeadTailProperties DEF OnItsWay
      <4>3. since[r] \in Nat /\ Len(shown[r]) \in Nat
        BY <1>1, LenProperties DEF RoomShape
      <4> QED  BY <4>2, <4>3, LenProperties DEF Seen, Owed
    <3> HIDE DEF d, q
    <3>2. /\ Owed(r) <= Len(log[n])
          /\ \A i \in 1..Len(d) : d[i] = DeliveryOf(n, log[n][Seen(r) + i])
          /\ wpc[r] = "r_wait" =>
               /\ Owed(r) + Len(q) = Len(log[n])
               /\ \A i \in 1..Len(q) : q[i] = log[n][Owed(r) + i]
      BY <2>1, <2>5 DEF StreamAt, d, q
    <3>3. \A i \in 1..Len(d) : d[i] = DeliveryOf(n, log'[n][Seen(r) + i])
      <4> SUFFICES ASSUME NEW i \in 1..Len(d)
                   PROVE  d[i] = DeliveryOf(n, log'[n][Seen(r) + i])
        OBVIOUS
      <4>1. Seen(r) + i \in 1..Len(log[n])
        BY <1>6, <3>1, <3>2
      <4>2. log'[n][Seen(r) + i] = log[n][Seen(r) + i]
        BY <1>6, <4>1
      <4> QED  BY <3>2, <4>2
    <3>4. ASSUME wpc[r] = "r_wait"
          PROVE  /\ Owed(r) + Len(queue'[r]) = Len(log'[n])
                 /\ \A i \in 1..Len(queue'[r]) : queue'[r][i] = log'[n][Owed(r) + i]
      <4>1. r \in Members(n)
        BY <2>5, <3>4 DEF Members
      <4>2. /\ Len(q) \in Nat /\ Len(queue'[r]) = Len(q) + 1 /\ queue'[r][Len(q) + 1] = said
            /\ \A i \in 1..Len(q) : queue'[r][i] = q[i]
        BY <1>7, <4>1 DEF q
      <4>3. Owed(r) + Len(q) = Len(log[n]) /\ Owed(r) \in Nat
        BY <3>1, <3>2, <3>4
      <4>4. ASSUME NEW i \in 1..Len(q)
            PROVE  queue'[r][i] = log'[n][Owed(r) + i]
        <5>1. Owed(r) + i \in 1..Len(log[n])
          BY <4>2, <4>3
        <5> QED  BY <1>6, <3>2, <3>4, <4>2, <5>1
      <4>5. queue'[r][Len(q) + 1] = log'[n][Owed(r) + (Len(q) + 1)]
        <5>1. Owed(r) + (Len(q) + 1) = Len(log[n]) + 1
          <6>1. \A a, b \in Nat : a + (b + 1) = (a + b) + 1
            OBVIOUS
          <6>2. Owed(r) + (Len(q) + 1) = (Owed(r) + Len(q)) + 1
            BY <4>2, <4>3, <6>1, Zenon
          <6> QED  BY <4>3, <6>2
        <5> QED  BY <1>6, <4>2, <5>1
      <4>6. \A i \in 1..Len(queue'[r]) : i \in 1..Len(q) \/ i = Len(q) + 1
        BY <4>2
      <4> QED  BY <1>6, <4>2, <4>3, <4>4, <4>5, <4>6
    <3>5. Owed(r) <= Len(log'[n])
      BY <1>6, <3>1, <3>2
    <3>6. room'[r] = n /\ wpc'[r] = wpc[r] /\ OnItsWay(r)' = d
      BY <1>4, <1>5, <2>2, <2>5 DEF d
    <3> QED  BY <2>2, <2>3, <3>3, <3>4, <3>5, <3>6 DEF StreamAt
  <2> QED  BY <2>4, <2>5
<1>11. RoomInv'
  BY <1>8, <1>9, <1>10 DEF RoomInv
<1>12. Where' = Where
  BY <1>4, <1>5 DEF Where, IsIn
<1>13. Abstract!Publish(n, said)
  BY <1>4, <1>5, <1>12 DEF Abstract!Publish, Where
<1>14. said \in [from : {Name(d) : d \in Senders}, text : {Trim(l) : l \in Typed}]
  BY DEF Sayings, Texts
<1> QED  BY <1>11, <1>13, <1>14 DEF Maps, Abstract!Next

\* The worker of a receiver passes on the first message of the queue.
LEMMA DeliversMap ==
  ASSUME Inv, RoomInv, NEW r \in Receivers, Delivers(r)
  PROVE  Maps
<1>1. Shape /\ RoomShape /\ r \in Clients /\ Paired(r) /\ JoinExact(r)
  BY DEF Inv, RoomInv, Clients
<1>2. /\ wpc[r] = "r_wait" /\ queue[r] # <<>>
      /\ queue' = [queue EXCEPT ![r] = Tail(queue[r])]
      /\ down' = [down EXCEPT ![r] = Append(down[r], Delivery(r))]
      /\ UNCHANGED <<cpc, copen, asked, shown, up, wpc, room, log, since>>
  BY DEF Delivers, Dequeues, client
<1>3. PICK n \in RoomNames : room[r] = n /\ n # Nowhere
  BY <1>1, <1>2 DEF JoinExact, RoomShape
<1>4. PICK said \in Sayings : said = Head(queue[r])
  BY <1>1, <1>2, HeadTailProperties DEF RoomShape
<1> DEFINE x == DeliveryOf(n, said)
           q == queue[r]
           d == OnItsWay(r)
<1>5. Delivery(r) = x /\ x \in Sent
  BY <1>3, <1>4, MayBeSent DEF Delivery, DeliveryOf
<1> HIDE DEF x
<1>6. /\ q \in Seq(Sayings) /\ Len(q) \in Nat \ {0} /\ q[1] = said
      /\ queue'[r] = Tail(q) /\ Tail(q) \in Seq(Sayings) /\ Len(Tail(q)) = Len(q) - 1
      /\ \A i \in 1..Len(Tail(q)) : Tail(q)[i] = q[i + 1]
  BY <1>1, <1>2, <1>4, HeadTailProperties, EmptySeq DEF RoomShape
<1>7. /\ down[r] \in Seq(Sent) /\ down'[r] = Append(down[r], x)
      /\ down'[r] \in Seq(Sent) /\ down'[r] # <<>>
  <2>1. down[r] \in Seq(Sent) /\ down'[r] = Append(down[r], x)
    BY <1>1, <1>2, <1>5 DEF Shape, RoomShape
  <2> QED  BY <1>5, <2>1, AppendProperties
<1>8. ASSUME down[r] # <<>>
      PROVE  Head(down'[r]) = Head(down[r]) /\ Tail(down'[r]) = Append(Tail(down[r]), x)
  BY <1>5, <1>7, <1>8
<1>9. RoomShape'
  <2>1. \A p \in Receivers : down'[p] \in Seq(Sent)
    BY <1>1, <1>2, <1>7 DEF Shape, RoomShape, Clients
  <2>2. queue' \in [Receivers -> Seq(Sayings)]
    BY <1>1, <1>2, <1>6 DEF RoomShape
  <2> QED  BY <1>1, <1>2, <2>1, <2>2 DEF RoomShape
<1>10. RoomTouches(r)
  BY <1>1, <1>2 DEF RoomTouches, Shape, RoomShape, Clients
<1>11. cpc[r] = "await" => down[r] # <<>>
  BY <1>1, <1>3 DEF JoinExact
<1>12. JoinExact(r)'
  BY <1>1, <1>2, <1>7, <1>8, <1>11 DEF JoinExact
<1>13. ASSUME IsIn(r)'
       PROVE  StreamAt(r)'
  <2>1. IsIn(r) /\ StreamAt(r)
    BY <1>2, <1>13 DEF IsIn, RoomInv
  <2>2. d \in Seq(Sent)
    BY <1>7, <1>11, HeadTailProperties DEF OnItsWay
  <2>3. OnItsWay(r)' = Append(d, x)
    BY <1>2, <1>7, <1>8, <1>11 DEF OnItsWay
  <2> HIDE DEF d, q
  <2>4. /\ Len(d) \in Nat /\ Len(OnItsWay(r)') = Len(d) + 1
        /\ OnItsWay(r)'[Len(d) + 1] = x
        /\ \A i \in 1..Len(d) : OnItsWay(r)'[i] = d[i]
    BY <1>5, <2>2, <2>3, AppendProperties, LenProperties
  <2>5. Seen(r) \in Nat /\ Owed(r) = Seen(r) + Len(d)
    <3>1. since[r] \in Nat /\ Len(shown[r]) \in Nat
      BY <1>1, LenProperties DEF RoomShape
    <3> QED  BY <3>1 DEF Seen, Owed, d
  <2>6. Seen(r)' = Seen(r) /\ Owed(r)' = Owed(r) + 1
    <3>1. Seen(r)' = Seen(r)
      BY <1>2 DEF Seen
    <3> QED  BY <2>4, <2>5, <3>1 DEF Owed
  <2>7. /\ Owed(r) + Len(q) = Len(log[n])
        /\ \A i \in 1..Len(d) : d[i] = DeliveryOf(n, log[n][Seen(r) + i])
        /\ \A i \in 1..Len(q) : q[i] = log[n][Owed(r) + i]
    BY <1>2, <1>3, <2>1 DEF StreamAt, d, q
  <2>8. \A i \in 1..Len(OnItsWay(r)') : OnItsWay(r)'[i] = DeliveryOf(n, log[n][Seen(r) + i])
    <3>1. \A i \in 1..Len(OnItsWay(r)') : i \in 1..Len(d) \/ i = Len(d) + 1
      BY <2>4
    <3>2. x = DeliveryOf(n, log[n][Seen(r) + (Len(d) + 1)])
      <4>1. 1 \in 1..Len(q) /\ Owed(r) + 1 = Seen(r) + (Len(d) + 1)
        <5>1. 1 \in 1..Len(q)
          BY <1>6 DEF q
        <5>2. Owed(r) + 1 = Seen(r) + (Len(d) + 1)
          BY <2>4, <2>5
        <5> QED  BY <5>1, <5>2
      <4>2. said = log[n][Owed(r) + 1]
        BY <1>6, <2>7, <4>1 DEF q
      <4> QED  BY <4>1, <4>2 DEF x
    <3> QED  BY <2>4, <2>7, <3>1, <3>2
  <2>9. \A i \in 1..Len(Tail(q)) : Tail(q)[i] = log[n][(Owed(r) + 1) + i]
    <3> SUFFICES ASSUME NEW i \in 1..Len(Tail(q))
                 PROVE  Tail(q)[i] = log[n][(Owed(r) + 1) + i]
      OBVIOUS
    <3>1. i + 1 \in 1..Len(q) /\ Tail(q)[i] = q[i + 1]
      BY <1>6 DEF q
    <3>2. Owed(r) + (i + 1) = (Owed(r) + 1) + i
      BY <2>4, <2>5
    <3> QED  BY <2>7, <3>1, <3>2
  <2>10. Owed(r) + 1 <= Len(log[n]) /\ (Owed(r) + 1) + Len(Tail(q)) = Len(log[n])
    BY <1>6, <2>4, <2>5, <2>7 DEF q
  <2>11. queue'[r] = Tail(q) /\ room'[r] = n /\ log' = log
    BY <1>2, <1>3, <1>6 DEF q
  <2> QED  BY <2>6, <2>8, <2>9, <2>10, <2>11 DEF StreamAt
<1>14. IsIn(r)' <=> IsIn(r)
  BY <1>2 DEF IsIn
<1> QED  BY <1>1, <1>2, <1>9, <1>10, <1>12, <1>13, <1>14, QuietMaps

LEMMA DropsMap ==
  ASSUME Inv, RoomInv, NEW r \in Receivers, Drops(r)
  PROVE  Maps
<1>1. Shape /\ RoomShape /\ r \in Clients /\ JoinExact(r)
  BY DEF Inv, RoomInv, Clients
<1>2. /\ wpc[r] = "r_wait" /\ wpc' = [wpc EXCEPT ![r] = "closed"]
      /\ queue[r] # <<>> /\ queue' = [queue EXCEPT ![r] = Tail(queue[r])]
      /\ UNCHANGED <<cpc, copen, asked, shown, up, down, room, log, since>>
  BY DEF Drops, Dequeues, client
<1>3. wpc'[r] = "closed"
  BY <1>1, <1>2 DEF Shape
<1>4. RoomShape'
  BY <1>1, <1>2, HeadTailProperties, ClientsAssumption DEF Shape, RoomShape
<1>5. RoomTouches(r)
  BY <1>1, <1>2 DEF RoomTouches, Shape, RoomShape, Clients
<1>6. JoinExact(r)'
  BY <1>1, <1>2, <1>3 DEF JoinExact
<1>7. IsIn(r)' <=> IsIn(r)
  BY <1>2 DEF IsIn
<1>8. IsIn(r)' => StreamAt(r)'
  <2>1. OnItsWay(r)' = OnItsWay(r) /\ Seen(r)' = Seen(r)
    BY <1>2 DEF OnItsWay, Seen
  <2>2. Owed(r)' = Owed(r)
    BY <2>1 DEF Owed
  <2>3. StreamAt(r) => StreamAt(r)'
    BY <1>2, <1>3, <2>1, <2>2 DEF StreamAt
  <2> QED  BY <1>7, <2>3 DEF RoomInv
<1> QED  BY <1>1, <1>2, <1>4, <1>5, <1>6, <1>7, <1>8, QuietMaps

\* What the death of the server loses, nobody was shown: the streams of the
\* receivers stop there.
LEMMA DiesMap ==
  ASSUME Inv, RoomInv, Dies
  PROVE  Maps
<1>1. Shape /\ RoomShape
  BY DEF Inv, RoomInv
<1>2. /\ wpc' = [c \in Clients |-> "closed"]
      /\ UNCHANGED <<cpc, copen, asked, shown, up, room, queue, log, since>>
  BY DEF Dies, client, rooms
<1>3. \A c \in Clients : down'[c] = down[c] \/ (up[c] # <<>> /\ down'[c] = <<>>)
  BY DEF Dies
<1>4. RoomShape'
  BY <1>1, <1>2, <1>3, EmptySeq DEF RoomShape, Clients
<1>5. ASSUME NEW r \in Receivers
      PROVE  JoinExact(r)' /\ (IsIn(r)' => StreamAt(r)')
  <2>1. JoinExact(r) /\ (IsIn(r) => StreamAt(r)) /\ r \in Clients /\ Paired(r)
    BY DEF RoomInv, Inv, Clients
  <2>2. wpc'[r] = "closed"
    BY <1>2, <2>1
  <2>3. cpc[r] = "await" =>
          \/ down'[r] = down[r]
          \/ down[r] = <<>> /\ down'[r] = <<>> /\ room[r] = Nowhere
    BY <1>3, <2>1 DEF Paired, Pending, Answering, JoinExact
  <2>4. JoinExact(r)'
    BY <1>2, <2>1, <2>2, <2>3 DEF JoinExact
  <2>5. ASSUME IsIn(r)' PROVE StreamAt(r)'
    <3>1. IsIn(r) /\ StreamAt(r) /\ room[r] # Nowhere
      BY <1>2, <2>1, <2>5 DEF IsIn
    <3>2. Seen(r)' = Seen(r) /\ Seen(r) \in Nat
      <4>1. since[r] \in Nat /\ Len(shown[r]) \in Nat
        BY <1>1, LenProperties DEF RoomShape
      <4> QED  BY <1>2, <4>1 DEF Seen
    <3>3. CASE down'[r] = down[r]
      <4>1. OnItsWay(r)' = OnItsWay(r)
        BY <1>2, <3>3 DEF OnItsWay
      <4>2. Owed(r)' = Owed(r)
        BY <3>2, <4>1 DEF Owed
      <4> QED  BY <1>2, <2>2, <3>1, <3>2, <4>1, <4>2 DEF StreamAt
    <3>4. CASE down'[r] = <<>> /\ cpc[r] # "await"
      <4>1. OnItsWay(r)' = <<>> /\ OnItsWay(r) = down[r] /\ Len(<<>>) = 0
        BY <1>2, <3>4 DEF OnItsWay
      <4>2. Owed(r)' = Seen(r) /\ Seen(r) <= Owed(r) /\ Owed(r) \in Nat
        <5>1. Len(down[r]) \in Nat
          BY <1>1, LenProperties DEF RoomShape
        <5> QED  BY <3>2, <4>1, <5>1 DEF Owed
      <4>3. Len(log[room[r]]) \in Nat
        BY <1>1, <2>1, <3>1, LenProperties DEF RoomShape
      <4>4. Owed(r)' <= Len(log[room[r]])
        BY <3>1, <3>2, <4>2, <4>3 DEF StreamAt
      <4>5. 1..Len(OnItsWay(r)') = {}
        BY <4>1
      <4> QED  BY <1>2, <2>2, <4>4, <4>5 DEF StreamAt
    <3> QED  BY <1>3, <2>1, <2>3, <3>1, <3>3, <3>4
  <2> QED  BY <2>4, <2>5
<1>6. RoomInv'
  BY <1>4, <1>5 DEF RoomInv
<1>7. Where' = Where
  BY <1>2 DEF Where, IsIn
<1> QED  BY <1>2, <1>6, <1>7, Unseen DEF Maps

LEMMA MapsInit == Init => RoomInv /\ Abstract!Init
<1> SUFFICES ASSUME Init PROVE RoomInv /\ Abstract!Init
  OBVIOUS
<1>1. \A r \in Receivers : ~IsIn(r)
  BY DEF Init, IsIn, Clients
<1>2. \A S : <<>> \in Seq(S)
  BY EmptySeq
<1>3. RoomShape
  BY <1>2, ClientsAssumption DEF Init, RoomShape, Clients
<1>4. \A r \in Receivers : JoinExact(r)
  BY DEF Init, JoinExact, Clients
<1>5. Abstract!Init
  BY <1>1 DEF Init, Abstract!Init
<1> QED  BY <1>1, <1>3, <1>4, <1>5 DEF RoomInv

LEMMA MapsStep ==
  Inv /\ RoomInv /\ [Next]_vars => RoomInv' /\ [Abstract!Next]_(Abstract!vars)
<1> SUFFICES ASSUME Inv, RoomInv, [Next]_vars PROVE Maps
  BY DEF Maps
<1> Senders \subseteq Clients /\ Receivers \subseteq Clients
  BY DEF Clients
<1>1. ASSUME NEW c \in Clients, Hears(c)
      PROVE  Maps
  BY <1>1, EndsMap, AnsweredMap DEF Hears
<1>2. ASSUME NEW c \in Clients, Serves(c)
      PROVE  Maps
  BY <1>2, AcceptsMap, LoginMaps, ReadsEndMap DEF Serves
<1>3. ASSUME NEW c \in Senders, ServesSender(c)
      PROVE  Maps
  BY <1>2, <1>3, SaidMap, ServesMap DEF ServesSender
<1>4. ASSUME NEW c \in Receivers, ServesReceiver(c)
      PROVE  Maps
  BY <1>2, <1>4, ReceiverRefusedMap, ReceiverJoinedMap, DeliversMap, DropsMap
     DEF ServesReceiver
<1>5. ASSUME NEW c \in Receivers, RunsReceiver(c)
      PROVE  Maps
  BY <1>1, <1>5, ShowsMap, EndsMap, ReceiverJoinsMap DEF RunsReceiver
<1>6. ASSUME NEW c \in Senders, NEW l \in Typed,
             TypesNothing(c, l) \/ Requests(c, l) \/ RequestFails(c, l)
      PROVE  Maps
  BY <1>6, TypesNothingMap, RequestsMap, EndsMap
<1>7. ASSUME NEW c \in Clients,
             \/ ConnectFails(c) \/ Killed(c) \/ EndOfInput(c)
             \/ \E name \in {Name(c), BadName} : Connects(c, name)
      PROVE  Maps
  BY <1>7, EndsMap, ConnectsMap
<1>8. CASE UNCHANGED vars
  <2>1. UNCHANGED <<cpc, copen, asked, shown, up, down, wpc, room, queue, log, since>>
    BY <1>8 DEF vars, client, server, rooms
  <2>2. RoomInv'
    BY <2>1 DEF RoomInv, RoomShape, JoinExact, IsIn, StreamAt, Owed, Seen, OnItsWay
  <2>3. Where' = Where
    BY <2>1 DEF Where, IsIn
  <2> QED  BY <2>1, <2>2, <2>3, Unseen DEF Maps
<1> QED
  BY <1>1, <1>3, <1>4, <1>5, <1>6, <1>7, <1>8, DiesMap DEF Next

\* What the users see is a broadcast by rooms: a receiver displays what senders
\* typed in its room from when it joined, each line whole, with its sender, once
\* and in the one order of the room, for any clients, lines and number of requests
\* (sender.cpp, receiver.cpp, chat_with_sender, chat_with_receiver).
THEOREM ShownIsSaid == Spec => ShownAsSaid
<1>1. Init => Inv /\ RoomInv /\ Abstract!Init
  BY InitInv, MapsInit
<1>2. Inv /\ RoomInv /\ [Next]_vars => Inv' /\ RoomInv' /\ [Abstract!Next]_(Abstract!vars)
  BY StepInv, MapsStep
<1> QED
  BY <1>1, <1>2, PTL DEF Spec, ShownAsSaid, Abstract!Spec

================================================================================
