------------------------------ MODULE Connection ------------------------------
(***************************************************************************)
(* One direction of a connection of csf_assign05: Connection::send at one  *)
(* end, by way of rio_writen; the socket; rio_read, rio_readlineb and      *)
(* Connection::receive at the other end (connection.cpp, csapp.c).  The    *)
(* socket takes and gives bytes in pieces of any size.  The writer may     *)
(* also be a program that knows nothing of Connection and writes what it   *)
(* likes, may be killed, and the connection may break.  A call that a      *)
(* signal interrupted is repeated, which changes nothing.                  *)
(***************************************************************************)
EXTENDS MessageFormat

CONSTANTS Msgs,         \* the messages that are sent
          Bytes,        \* the bytes there are
          RIO_BUFSIZE,  \* the size of the internal buffer of rio_t
          Room,         \* how many bytes the socket holds
          MaxSends,     \* bound: calls of send
          MaxBytes      \* bound: bytes of another program

ASSUME BytesAssumption == {Colon, Newline, Return, Nul} \subseteq Bytes
ASSUME MsgsAssumption == /\ Msgs \subseteq [tag : Seq(Bytes), data : Seq(Bytes)]
                         /\ \A m \in Msgs : Plain(m)
ASSUME SizesAssumption == RIO_BUFSIZE \in Nat \ {0} /\ Room \in Nat \ {0}

VARIABLES
  program,  \* the writer: "Connection" or "other"
  conn,     \* the socket: "none", "open", "shut" by its writer, or "broken"
  calls,    \* how many calls of send, or bytes of another program, there were
  sent,     \* history: the messages whose send began to write
  writing,  \* rio_writen: the bytes from bufp on
  result,   \* the writer's m_last_result
  pipe,     \* the bytes in the socket
  unread,   \* rio_t: the rio_cnt bytes from rio_bufptr on
  reader,   \* "idle", in "receive", or "closed"
  line,     \* rio_readlineb: the bytes before bufp
  got       \* history: what the calls of receive returned

writer == <<program, calls, sent, writing, result>>
receiver == <<unread, reader, line, got>>
vars == <<writer, conn, pipe, receiver>>

Init ==
  /\ program \in {"Connection", "other"}
  /\ conn = "none"
  /\ calls = 0 /\ sent = <<>> /\ writing = <<>> /\ result = SUCCESS
  /\ pipe = <<>>
  /\ unread = <<>> /\ reader = "idle" /\ line = <<>> /\ got = <<>>

Minimum(m, n) == IF m < n THEN m ELSE n
FirstOf(s, n) == SubSeq(s, 1, n)
AllBut(s, n) == SubSeq(s, n + 1, Len(s))

------------------------------------------------------------------------------
(* connect, send and close *)

\* open_clientfd found an address it could connect to, accept returned the
\* other end, and rio_readinitb emptied the buffer.  (When it finds none,
\* m_fd stays below 0 and the clients go no further.)
Connect ==
  /\ conn = "none"
  /\ conn' = "open"
  /\ unread' = <<>>
  /\ UNCHANGED <<writer, pipe, reader, line, got>>

\* All callers give up after a send that failed.
CallsSend ==
  /\ program = "Connection" /\ conn \in {"open", "broken"}
  /\ writing = <<>> /\ result = SUCCESS
  /\ calls < MaxSends
  /\ calls' = calls + 1

SendRefuses(m) ==
  /\ CallsSend
  /\ ~Fits(m)
  /\ result' = INVALID_MSG
  /\ UNCHANGED <<program, sent, writing, conn, pipe, receiver>>

SendStarts(m) ==
  /\ CallsSend
  /\ Fits(m)
  /\ writing' = Encoded(m)
  /\ sent' = Append(sent, m)
  /\ UNCHANGED <<program, result, conn, pipe, receiver>>

\* The socket takes some bytes.  When the other end is closed they are lost, and
\* the answer to them breaks the connection.
Takes(bytes) ==
  /\ conn = "open"
  /\ IF reader = "closed" THEN conn' = "broken" /\ UNCHANGED pipe
     ELSE pipe' = pipe \o bytes /\ UNCHANGED conn

\* Bug: the loop takes every write for a whole one.
WriteAtOnce(n) ==
  /\ writing # <<>> /\ n <= Len(writing)
  /\ Takes(FirstOf(writing, n))
  /\ writing' = <<>>
  /\ result' = SUCCESS
  /\ UNCHANGED <<program, calls, sent, receiver>>

\* write takes n of the bytes; after the last one send returns true.
Write(n) ==
  /\ writing # <<>> /\ n <= Len(writing)
  /\ Takes(FirstOf(writing, n))
  /\ writing' = AllBut(writing, n)
  /\ result' = IF n = Len(writing) THEN SUCCESS ELSE result
  /\ UNCHANGED <<program, calls, sent, receiver>>

\* As many as fit; until some do, write blocks.
WriteSome == \E n \in 1..(Room - Len(pipe)) : Write(n)

WriteFails ==
  /\ conn = "broken" /\ writing # <<>> /\ result = SUCCESS
  /\ result' = EOF_OR_ERROR
  /\ UNCHANGED <<program, calls, sent, writing, conn, pipe, receiver>>

OtherWrites(b) ==
  /\ program = "other"
  /\ calls < MaxBytes /\ Len(pipe) < Room
  /\ calls' = calls + 1
  /\ Takes(<<b>>)
  /\ UNCHANGED <<program, sent, writing, result, receiver>>

\* The writer closes its end, or is killed and so never writes the rest.
WriterEnds ==
  /\ conn = "open"
  /\ conn' = "shut"
  /\ UNCHANGED <<writer, pipe, receiver>>

\* The connection is reset: bytes that were not read are lost.
Reset ==
  /\ conn \in {"open", "shut"}
  /\ conn' = "broken"
  /\ pipe' = <<>>
  /\ UNCHANGED <<writer, receiver>>

------------------------------------------------------------------------------
(* receive *)

HasEnded == got # <<>> /\ got[Len(got)].result = EOF_OR_ERROR

\* Callers go on after a bad message and close the connection after an error.
CallReceive ==
  /\ reader = "idle" /\ conn # "none" /\ ~HasEnded
  /\ reader' = "receive"
  /\ line' = <<>>
  /\ UNCHANGED <<writer, conn, pipe, unread, got>>

\* Bug: whatever is in the buffer is thrown away.
RefillAlways ==
  /\ reader = "receive" /\ pipe # <<>>
  /\ LET n == Minimum(RIO_BUFSIZE, Len(pipe)) IN
     /\ unread' = FirstOf(pipe, n)
     /\ pipe' = AllBut(pipe, n)
  /\ UNCHANGED <<writer, conn, reader, line, got>>

\* rio_read finds its buffer empty and reads what there is, up to its size.
Refill ==
  /\ reader = "receive" /\ unread = <<>> /\ pipe # <<>>
  /\ LET n == Minimum(RIO_BUFSIZE, Len(pipe)) IN
     /\ unread' = FirstOf(pipe, n)
     /\ pipe' = AllBut(pipe, n)
  /\ UNCHANGED <<writer, conn, reader, line, got>>

Returns(outcome) ==
  /\ reader' = "idle"
  /\ line' = <<>>
  /\ got' = Append(got, outcome)

\* Bug: one byte too many, so that the NUL is written behind the buffer.
IsCompleteLate(l) == l[Len(l)] = Newline \/ Len(l) = MAX_LEN + 1

\* The loop of rio_readlineb ends: n reached maxlen, which is MAX_LEN + 1, or
\* the byte was a newline.
IsComplete(l) == l[Len(l)] = Newline \/ Len(l) = MAX_LEN

\* rio_read gives rio_readlineb one byte.
TakeByte ==
  /\ reader = "receive" /\ unread # <<>>
  /\ unread' = Tail(unread)
  /\ LET taken == Append(line, Head(unread)) IN
     IF IsComplete(taken) THEN Returns(Received(taken))
     ELSE line' = taken /\ UNCHANGED <<reader, got>>
  /\ UNCHANGED <<writer, conn, pipe>>

\* Bug: a line without a newline is forgotten.
ReadsEndOnly ==
  /\ reader = "receive" /\ unread = <<>> /\ pipe = <<>> /\ conn = "shut"
  /\ Returns(Failure(EOF_OR_ERROR))
  /\ UNCHANGED <<writer, conn, pipe, unread>>

\* read returns 0: end of file, or the end of a line without a newline.
ReadsEnd ==
  /\ reader = "receive" /\ unread = <<>> /\ pipe = <<>> /\ conn = "shut"
  /\ Returns(IF line = <<>> THEN Failure(EOF_OR_ERROR) ELSE Received(line))
  /\ UNCHANGED <<writer, conn, pipe, unread>>

ReadFails ==
  /\ reader = "receive" /\ unread = <<>> /\ conn = "broken"
  /\ Returns(Failure(EOF_OR_ERROR))
  /\ UNCHANGED <<writer, conn, pipe, unread>>

\* The receiving end is closed: ~Connection, or the end of its process.  Bytes
\* that were not read break the connection.
ReaderCloses ==
  /\ reader # "closed" /\ conn # "none"
  /\ reader' = "closed"
  /\ conn' = IF pipe = <<>> THEN conn ELSE "broken"
  /\ pipe' = <<>>
  /\ UNCHANGED <<writer, unread, line, got>>

------------------------------------------------------------------------------
ReaderRuns == CallReceive \/ Refill \/ TakeByte \/ ReadsEnd \/ ReadFails

Next ==
  \/ Connect \/ WriterEnds \/ Reset
  \/ \E m \in Msgs : SendRefuses(m) \/ SendStarts(m)
  \/ WriteSome \/ WriteFails
  \/ \E b \in Bytes : OtherWrites(b)
  \/ ReaderRuns \/ ReaderCloses

Spec == Init /\ [][Next]_vars

\* A send that can go on does, and the reader calls receive again after every
\* message (the loops of chat_with_sender and of the receiver program).
FairSpec == Spec /\ WF_vars(WriteSome) /\ WF_vars(ReaderRuns)

------------------------------------------------------------------------------
\* Every variable keeps to its values; the line fits into the buffer on
\* receive's stack with a NUL behind it, and what read returns into that of
\* rio_t.
TypeOK ==
  /\ program \in {"Connection", "other"}
  /\ conn \in {"none", "open", "shut", "broken"}
  /\ calls \in Nat
  /\ sent \in Seq(Msgs)
  /\ result \in {SUCCESS, EOF_OR_ERROR, INVALID_MSG}
  /\ Len(pipe) <= Room
  /\ Len(unread) <= RIO_BUFSIZE
  /\ reader \in {"idle", "receive", "closed"}
  /\ Len(line) < MAX_LEN

\* A message that the end of its writer cut off.
Cut == conn # "open" /\ writing # <<>>
WrittenOf(m) == FirstOf(Encoded(m), Len(Encoded(m)) - Len(writing))

\* Between two Connections the messages received are those that were sent, in
\* their order, none merged, split or left out.  The one exception: the last
\* one, if its writer was killed in the middle of it; what was written of it
\* is taken for a message all the same.
ReceivedAsSent ==
  program = "Connection" =>
    \A i \in DOMAIN got :
      got[i].result # EOF_OR_ERROR =>
        /\ i <= Len(sent)
        /\ \/ got[i] = [result |-> SUCCESS, msg |-> sent[i]]
           \/ i = Len(sent) /\ Cut /\ got[i] = Received(WrittenOf(sent[i]))

\* Whoever wrote, and however the bytes came, receive returns the lines of one
\* stream of bytes.
Stream == INSTANCE LineStream WITH
  rest <- line \o unread \o pipe,
  conn <- IF conn = "none" THEN "open" ELSE conn

ImplementsLineStream == Stream!Spec

\* A message that send began to write is received, unless the connection is lost
\* or the reader closes it: neither end waits for the other forever, and no byte
\* stays behind in a buffer.
SentIsReceived ==
  \A n \in 1..MaxSends :
    program = "Connection" /\ Len(sent) = n
      ~> Len(got) >= n \/ conn = "broken" \/ reader = "closed"
===============================================================================
