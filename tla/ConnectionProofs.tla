---------------------------- MODULE ConnectionProofs ----------------------------
(***************************************************************************)
(* Proofs about one direction of a connection, for lines, buffers and      *)
(* sockets of any size, any messages and any number of calls.  The bytes   *)
(* that were written and not returned are those in the line, in the buffer *)
(* and in the socket, in this order (Rest); reading moves the borders      *)
(* between the three, and only a call of receive that returns takes bytes  *)
(* away, a line that holds no newline but at its end (LineInv).  Between   *)
(* two Connections each of these bytes has its place in the line of some   *)
(* message that was sent (Labels).                                         *)
(***************************************************************************)
EXTENDS Connection, SequenceTheorems, TLAPS

Rest == line \o unread \o pipe

\* The connection as LineStream sees it.
StreamConn == IF conn = "none" THEN "open" ELSE conn

LineInv ==
  /\ \A i \in 1..Len(line) : line[i] # Newline
  /\ reader = "idle" => line = <<>>

\* Nothing is in the socket before there is a connection or after it broke.
PipeInv ==
  /\ conn = "none" => pipe = <<>> /\ unread = <<>> /\ line = <<>>
  /\ conn = "broken" \/ reader = "closed" => pipe = <<>>

Inv ==
  /\ TypeOK
  /\ pipe \in Seq(Bytes) /\ unread \in Seq(Bytes) /\ line \in Seq(Bytes)
  /\ writing \in Seq(Bytes)
  /\ LineInv /\ PipeInv

------------------------------------------------------------------------------
(* Sequences of bytes *)

\* A sequence in two parts.
LEMMA Split ==
  ASSUME NEW S, NEW s \in Seq(S), NEW n \in 0..Len(s)
  PROVE  /\ FirstOf(s, n) \in Seq(S) /\ Len(FirstOf(s, n)) = n
         /\ AllBut(s, n) \in Seq(S) /\ Len(AllBut(s, n)) = Len(s) - n
         /\ FirstOf(s, n) \o AllBut(s, n) = s
<1>1. Len(s) \in Nat
  BY LenProperties
<1>2. /\ FirstOf(s, n) \in Seq(S) /\ Len(FirstOf(s, n)) = n
      /\ AllBut(s, n) \in Seq(S) /\ Len(AllBut(s, n)) = Len(s) - n
  BY <1>1, SubSeqProperties, ElementOfSeq DEF FirstOf, AllBut
<1>3. SubSeq(s, 1, n) \o SubSeq(s, n + 1, Len(s)) = SubSeq(s, 1, Len(s))
  <2>1. 1 \in 1 .. Len(s) + 1 /\ n \in 1 - 1 .. Len(s) /\ Len(s) \in n .. Len(s)
    BY <1>1
  <2> QED
    BY <2>1, ConcatAdjacentSubSeq, Zenon
<1> QED
  BY <1>2, <1>3, SubSeqFull DEF FirstOf, AllBut

\* The two parts of a concatenation.
LEMMA Parts ==
  ASSUME NEW S, NEW s \in Seq(S), NEW t \in Seq(S)
  PROVE  FirstOf(s \o t, Len(s)) = s /\ AllBut(s \o t, Len(s)) = t
<1>1. /\ Len(s) \in Nat /\ Len(t) \in Nat
      /\ s \o t \in Seq(S) /\ Len(s \o t) = Len(s) + Len(t)
      /\ \A i \in 1 .. Len(s) + Len(t) :
           (s \o t)[i] = IF i <= Len(s) THEN s[i] ELSE t[i - Len(s)]
  BY LenProperties, ConcatProperties
<1>2. /\ FirstOf(s \o t, Len(s)) \in Seq(S) /\ Len(FirstOf(s \o t, Len(s))) = Len(s)
      /\ AllBut(s \o t, Len(s)) \in Seq(S) /\ Len(AllBut(s \o t, Len(s))) = Len(t)
  <2> DEFINE u == s \o t
  <2>1. u \in Seq(S) /\ Len(u) = Len(s) + Len(t) /\ Len(s) \in 0..Len(u)
    BY <1>1
  <2> HIDE DEF u
  <2>2. /\ FirstOf(u, Len(s)) \in Seq(S) /\ Len(FirstOf(u, Len(s))) = Len(s)
        /\ AllBut(u, Len(s)) \in Seq(S) /\ Len(AllBut(u, Len(s))) = Len(t)
    BY <1>1, <2>1, Split
  <2> QED
    BY <2>2 DEF u
<1>3. \A i \in 1..Len(s) : FirstOf(s \o t, Len(s))[i] = s[i]
  BY <1>1, SubSeqProperties, ElementOfSeq DEF FirstOf
<1>4. \A i \in 1..Len(t) : AllBut(s \o t, Len(s))[i] = t[i]
  BY <1>1, SubSeqProperties, ElementOfSeq DEF AllBut
<1> QED
  BY <1>2, <1>3, <1>4, SeqEqual

\* The bytes of a concatenation.
LEMMA PartBytes ==
  ASSUME NEW S, NEW s \in Seq(S), NEW t \in Seq(S)
  PROVE  /\ s \o t \in Seq(S) /\ Len(s \o t) = Len(s) + Len(t)
         /\ \A i \in 1..Len(s) : (s \o t)[i] = s[i]
         /\ \A i \in 1..Len(t) : (s \o t)[Len(s) + i] = t[i]
<1>1. /\ Len(s) \in Nat /\ Len(t) \in Nat
      /\ s \o t \in Seq(S) /\ Len(s \o t) = Len(s) + Len(t)
      /\ \A i \in 1 .. Len(s) + Len(t) :
           (s \o t)[i] = IF i <= Len(s) THEN s[i] ELSE t[i - Len(s)]
  BY LenProperties, ConcatProperties
<1>2. \A i \in 1..Len(t) : Len(s) + i \in 1 .. Len(s) + Len(t) /\ ~(Len(s) + i <= Len(s))
                          /\ (Len(s) + i) - Len(s) = i
  BY <1>1
<1> QED
  BY <1>1, <1>2

\* The bytes of what is left.
LEMMA LeftBytes ==
  ASSUME NEW S, NEW s \in Seq(S), NEW n \in 0..Len(s)
  PROVE  \A i \in 1..(Len(s) - n) : AllBut(s, n)[i] = s[n + i]
<1>1. Len(s) \in Nat
  BY LenProperties
<1>2. \A i \in n + 1 .. Len(s) : s[i] \in S
  BY <1>1, ElementOfSeq
<1>3. \A i \in 1 .. Len(s) - (n + 1) + 1 : AllBut(s, n)[i] = s[(n + 1) + i - 1]
  BY <1>1, <1>2, SubSeqProperties DEF AllBut
<1>4. Len(s) - (n + 1) + 1 = Len(s) - n /\ \A i \in Nat : (n + 1) + i - 1 = n + i
  BY <1>1
<1> QED
  BY <1>3, <1>4

\* Filling an empty buffer.
LEMMA Refilled ==
  ASSUME NEW S, NEW l \in Seq(S), NEW v \in Seq(S), NEW q \in Seq(S)
  PROVE  l \o v \o q = l \o <<>> \o (v \o q)
<1>1. (l \o v) \o q = l \o (v \o q)
  BY ConcatAssociative
<1>2. l \o <<>> = l
  BY ConcatEmptySeq
<1> QED
  BY <1>1, <1>2

\* Taking the first byte of a buffer.
LEMMA Take ==
  ASSUME NEW S, NEW l \in Seq(S), NEW u \in Seq(S), NEW p \in Seq(S), u # <<>>
  PROVE  /\ Append(l, Head(u)) \in Seq(S) /\ Tail(u) \in Seq(S)
         /\ l \o u \o p = Append(l, Head(u)) \o Tail(u) \o p
<1>1. Head(u) \in S /\ Tail(u) \in Seq(S) /\ <<Head(u)>> \o Tail(u) = u
  OBVIOUS
<1>2. <<Head(u)>> \in Seq(S)
  BY <1>1
<1>3. Append(l, Head(u)) = l \o <<Head(u)>>
  BY <1>1, AppendIsConcat
<1>4. (l \o <<Head(u)>>) \o Tail(u) = l \o u
  BY <1>1, <1>2, ConcatAssociative
<1>5. Append(l, Head(u)) \in Seq(S)
  BY <1>1, AppendProperties
<1> QED
  BY <1>1, <1>3, <1>4, <1>5

------------------------------------------------------------------------------
(* Messages and lines *)

\* A message is bytes.
LEMMA EncodedType ==
  ASSUME NEW m \in Msgs
  PROVE  Encoded(m) \in Seq(Bytes)
<1>1. m.tag \in Seq(Bytes) /\ m.data \in Seq(Bytes)
  BY MsgsAssumption
<1>2. <<Colon>> \in Seq(Bytes) /\ <<Newline>> \in Seq(Bytes)
  BY BytesAssumption
<1>3. m.tag \o <<Colon>> \in Seq(Bytes)
  BY <1>1, <1>2, ConcatProperties
<1>4. (m.tag \o <<Colon>>) \o m.data \in Seq(Bytes)
  BY <1>1, <1>3, ConcatProperties
<1> QED
  BY <1>2, <1>4, ConcatProperties DEF Encoded

\* The stream takes a line for what the code takes it for.
LEMMA SameFormat ==
  /\ \A l : Stream!Received(l) = Received(l)
  /\ \A r : Stream!Failure(r) = Failure(r)
  /\ \A s, c : Stream!Contains(s, c) <=> Contains(s, c)
  /\ Stream!Newline = Newline /\ Stream!EOF_OR_ERROR = EOF_OR_ERROR
  /\ \A s, n : Stream!Prefix(s, n) = FirstOf(s, n) /\ Stream!Suffix(s, n) = AllBut(s, n)
BY DEF Stream!Received, Received, Stream!Failure, Failure, Stream!Contains, Contains,
       Stream!Newline, Newline, Stream!EOF_OR_ERROR, EOF_OR_ERROR, Stream!Prefix,
       Stream!Suffix, FirstOf, AllBut, Stream!Trimmed, Trimmed, Stream!CString, CString,
       Stream!Before, Before, Stream!After, After, Stream!First, First, Stream!Colon,
       Colon, Stream!Return, Return, Stream!Nul, Nul, Stream!NoMessage, NoMessage,
       Stream!SUCCESS, SUCCESS, Stream!INVALID_MSG, INVALID_MSG

------------------------------------------------------------------------------
(* The steps, one by one *)

LEMMA InitInv == Init => Inv /\ Stream!Init
<1> SUFFICES ASSUME Init PROVE Inv /\ Stream!Init
  OBVIOUS
<1>1. <<>> \in Seq(Bytes) /\ <<>> \in Seq(Msgs) /\ Len(<<>>) = 0
  BY EmptySeq
<1>2. <<>> \o <<>> \o <<>> = <<>>
  BY <1>1, ConcatEmptySeq
<1> QED
  BY <1>1, <1>2, MaxLenAssumption, SizesAssumption
     DEF Init, Inv, TypeOK, LineInv, PipeInv, Stream!Init, SUCCESS

LEMMA RestType ==
  ASSUME Inv
  PROVE  /\ Rest \in Seq(Bytes) /\ line \o unread \in Seq(Bytes)
         /\ Len(line \o unread) = Len(line) + Len(unread)
         /\ Len(Rest) = Len(line) + Len(unread) + Len(pipe)
         /\ Len(line) \in Nat /\ Len(unread) \in Nat /\ Len(pipe) \in Nat
BY ConcatProperties, LenProperties DEF Inv, Rest

\* Steps that the stream does not see.
Unseen == UNCHANGED <<Rest, StreamConn, got>>

LEMMA ConnectStep ==
  ASSUME Inv, Connect PROVE Inv' /\ Unseen
BY EmptySeq, SizesAssumption
   DEF Inv, TypeOK, LineInv, PipeInv, Connect, writer, Unseen, Rest, StreamConn

LEMMA SendStep ==
  ASSUME Inv, NEW m \in Msgs, SendRefuses(m) \/ SendStarts(m) PROVE Inv' /\ Unseen
<1>1. Inv'
  <2>1. Append(sent, m) \in Seq(Msgs) /\ Encoded(m) \in Seq(Bytes) /\ calls + 1 \in Nat
    BY AppendProperties, EncodedType DEF Inv, TypeOK
  <2> QED
    BY <2>1 DEF Inv, TypeOK, LineInv, PipeInv, SendRefuses, SendStarts, CallsSend,
                receiver
<1> QED
  BY <1>1 DEF SendRefuses, SendStarts, receiver, Unseen, Rest, StreamConn

LEMMA QuietStep ==
  ASSUME Inv, WriteFails \/ CallReceive PROVE Inv' /\ Unseen
<1>1. CASE WriteFails
  BY <1>1 DEF Inv, TypeOK, LineInv, PipeInv, WriteFails, receiver, Unseen, Rest,
              StreamConn
<1>2. CASE CallReceive
  BY <1>2, EmptySeq, MaxLenAssumption
     DEF Inv, TypeOK, LineInv, PipeInv, CallReceive, writer, Unseen, Rest, StreamConn
<1> QED
  BY <1>1, <1>2

LEMMA RefillStep ==
  ASSUME Inv, Refill PROVE Inv' /\ Unseen
<1> DEFINE n == Minimum(RIO_BUFSIZE, Len(pipe))
           filled == FirstOf(pipe, n)
           left == AllBut(pipe, n)
<1>1. n \in 0..Len(pipe) /\ n <= RIO_BUFSIZE
  BY RestType, SizesAssumption DEF Minimum
<1>2. pipe \in Seq(Bytes) /\ line \in Seq(Bytes)
  BY DEF Inv
<1> HIDE DEF n
<1>3. /\ filled \in Seq(Bytes) /\ Len(filled) = n
      /\ left \in Seq(Bytes) /\ Len(left) = Len(pipe) - n
      /\ filled \o left = pipe
  BY <1>1, <1>2, Split
<1>4. /\ pipe # <<>> /\ unread = <<>> /\ reader = "receive"
      /\ unread' = filled /\ pipe' = left
      /\ UNCHANGED <<writer, conn, reader, line, got>>
  BY DEF Refill, n
<1> HIDE DEF filled, left
<1>5. Inv'
  <2>1. Len(pipe') <= Room /\ Len(unread') <= RIO_BUFSIZE
    BY <1>1, <1>3, <1>4, RestType, SizesAssumption DEF Inv, TypeOK
  <2>2. TypeOK'
    BY <2>1, <1>4 DEF Inv, TypeOK, writer
  <2>3. LineInv' /\ PipeInv'
    BY <1>4 DEF Inv, LineInv, PipeInv
  <2> QED
    BY <2>2, <2>3, <1>3, <1>4 DEF Inv, writer
<1>6. line \o filled \o left = line \o <<>> \o (filled \o left)
  <2>1. filled \in Seq(Bytes) /\ left \in Seq(Bytes)
    BY <1>3
  <2> QED
    BY <1>2, <2>1, Refilled
<1> QED
  BY <1>3, <1>4, <1>5, <1>6 DEF Unseen, Rest, StreamConn

\* What is in the socket is lost.
LEMMA LostStep ==
  ASSUME Inv, conn' = "broken", pipe' = <<>>, UNCHANGED <<line, unread, got>>
  PROVE  Stream!Break
<1> DEFINE n == Len(line \o unread)
<1>1. line \o unread \in Seq(Bytes) /\ pipe \in Seq(Bytes)
  BY RestType DEF Inv
<1>2. (line \o unread) \o <<>> = line \o unread
  BY <1>1, ConcatEmptySeq
<1>3. FirstOf((line \o unread) \o pipe, n) = line \o unread
  BY <1>1, Parts
<1>4. n \in 0..Len(line \o unread \o pipe)
  BY RestType DEF Rest
<1>5. Stream!Prefix(line \o unread \o pipe, n) = line \o unread
  BY <1>3, SameFormat
<1> HIDE DEF n
<1> QED
  BY <1>2, <1>4, <1>5 DEF Stream!Break

LEMMA Written ==
  ASSUME Inv, NEW bytes \in Seq(Bytes)
  PROVE  Rest \o bytes = line \o unread \o (pipe \o bytes)
<1>1. line \in Seq(Bytes) /\ unread \in Seq(Bytes) /\ pipe \in Seq(Bytes)
  BY DEF Inv
<1> QED
  BY <1>1 DEF Rest

\* The socket takes bytes.
LEMMA TakesStep ==
  ASSUME Inv, NEW bytes \in Seq(Bytes), Len(bytes) <= Room - Len(pipe), Takes(bytes),
         writing' \in Seq(Bytes), calls' \in Nat,
         result' \in {SUCCESS, EOF_OR_ERROR, INVALID_MSG},
         UNCHANGED <<program, sent, receiver>>
  PROVE  Inv' /\ Stream!Next
<1>0. conn = "open" /\ UNCHANGED <<unread, reader, line, got>>
  BY DEF Takes, receiver
<1>1. CASE reader = "closed"
  <2>1. conn' = "broken" /\ pipe' = <<>> /\ pipe' = pipe
    BY <1>1 DEF Inv, PipeInv, Takes
  <2>2. Inv'
    BY <1>0, <2>1 DEF Inv, TypeOK, LineInv, PipeInv
  <2> QED
    BY <1>0, <2>1, <2>2, LostStep DEF Stream!Next
<1>2. CASE reader # "closed"
  <2>1. pipe' = pipe \o bytes /\ conn' = conn
    BY <1>2 DEF Takes
  <2>2. pipe \o bytes \in Seq(Bytes) /\ Len(pipe \o bytes) = Len(pipe) + Len(bytes)
    BY ConcatProperties DEF Inv
  <2>3. Inv'
    <3>1. Len(bytes) \in Nat /\ Len(pipe) \in Nat
      BY LenProperties DEF Inv
    <3>2. Len(pipe') <= Room
      BY <2>1, <2>2, <3>1, SizesAssumption
    <3> QED
      BY <1>0, <1>2, <2>1, <2>2, <3>2 DEF Inv, TypeOK, LineInv, PipeInv
  <2>4. Rest \o bytes = line \o unread \o (pipe \o bytes)
    BY Written
  <2>5. /\ FirstOf(Rest \o bytes, Len(Rest)) = Rest
        /\ Len(Rest \o bytes) = Len(Rest) + Len(bytes)
        /\ Len(Rest) \in Nat /\ Len(bytes) \in Nat
    BY RestType, Parts, ConcatProperties, LenProperties
  <2>6. Rest' = Rest \o bytes
    BY <1>0, <2>1, <2>4 DEF Rest
  <2>7. Stream!Grow
    <3>1. Rest = FirstOf(Rest', Len(Rest)) /\ Len(Rest) <= Len(Rest')
      BY <2>5, <2>6
    <3> QED
      BY <1>0, <2>1, <3>1, SameFormat DEF Stream!Grow, Rest
  <2> QED
    BY <2>3, <2>7 DEF Stream!Next
<1> QED
  BY <1>1, <1>2

LEMMA WriteStep ==
  ASSUME Inv, WriteSome PROVE Inv' /\ Stream!Next
<1>1. PICK n \in 1..(Room - Len(pipe)) : Write(n)
  BY DEF WriteSome
<1> DEFINE some == FirstOf(writing, n)
<1>2. n \in 0..Len(writing) /\ n <= Room - Len(pipe)
  BY <1>1, LenProperties, RestType, SizesAssumption DEF Write, Inv
<1>3. some \in Seq(Bytes) /\ Len(some) = n /\ AllBut(writing, n) \in Seq(Bytes)
  BY <1>2, Split DEF Inv
<1>4. /\ Takes(some) /\ writing' \in Seq(Bytes) /\ calls' \in Nat
      /\ result' \in {SUCCESS, EOF_OR_ERROR, INVALID_MSG}
      /\ UNCHANGED <<program, sent, receiver>>
  BY <1>1, <1>3 DEF Write, Inv, TypeOK
<1> HIDE DEF some
<1> QED
  BY <1>2, <1>3, <1>4, TakesStep

LEMMA OtherStep ==
  ASSUME Inv, NEW b \in Bytes, OtherWrites(b) PROVE Inv' /\ Stream!Next
<1> DEFINE bytes == <<b>>
<1>1. bytes \in Seq(Bytes) /\ Len(bytes) = 1
  OBVIOUS
<1>2. /\ Takes(bytes) /\ writing' \in Seq(Bytes) /\ calls' \in Nat
      /\ result' \in {SUCCESS, EOF_OR_ERROR, INVALID_MSG}
      /\ UNCHANGED <<program, sent, receiver>>
      /\ Len(pipe) < Room
  BY DEF OtherWrites, Inv, TypeOK
<1> HIDE DEF bytes
<1>3. Len(bytes) <= Room - Len(pipe)
  BY <1>1, <1>2, RestType, SizesAssumption
<1> QED
  BY <1>1, <1>2, <1>3, TakesStep

LEMMA EndsStep ==
  ASSUME Inv, WriterEnds \/ Reset \/ ReaderCloses
  PROVE  Inv' /\ (Stream!Next \/ Unseen)
<1>1. CASE WriterEnds
  BY <1>1 DEF Inv, TypeOK, LineInv, PipeInv, WriterEnds, writer, receiver,
              Stream!Next, Stream!Shut
<1>2. CASE Reset
  <2>1. Inv'
    BY <1>2, EmptySeq, SizesAssumption
       DEF Inv, TypeOK, LineInv, PipeInv, Reset, writer, receiver
  <2> QED
    BY <1>2, <2>1, LostStep DEF Reset, receiver, Stream!Next
<1>3. CASE ReaderCloses
  <2>1. Inv'
    BY <1>3, EmptySeq, SizesAssumption
       DEF Inv, TypeOK, LineInv, PipeInv, ReaderCloses, writer
  <2>2. CASE pipe = <<>>
    BY <1>3, <2>1, <2>2 DEF ReaderCloses, Unseen, Rest, StreamConn
  <2>3. CASE pipe # <<>>
    BY <1>3, <2>1, <2>3, LostStep DEF ReaderCloses, Stream!Next
  <2> QED
    BY <2>2, <2>3
<1> QED
  BY <1>1, <1>2, <1>3

LEMMA TakeStep ==
  ASSUME Inv, TakeByte PROVE Inv' /\ (Stream!Next \/ Unseen)
<1> DEFINE taken == Append(line, Head(unread))
           left == Tail(unread)
<1>1. /\ line \in Seq(Bytes) /\ unread \in Seq(Bytes) /\ pipe \in Seq(Bytes)
      /\ unread # <<>> /\ reader = "receive"
      /\ UNCHANGED <<writer, conn, pipe>>
  BY DEF Inv, TakeByte
<1>2. /\ taken \in Seq(Bytes) /\ left \in Seq(Bytes)
      /\ line \o unread \o pipe = taken \o left \o pipe
  BY <1>1, Take
<1>3. /\ Len(left) = Len(unread) - 1 /\ Len(taken) = Len(line) + 1
      /\ \A i \in 1..Len(line) : taken[i] = line[i]
      /\ Len(line) \in Nat /\ Len(unread) \in Nat
  BY <1>1, HeadTailProperties, AppendProperties, LenProperties
<1>4. unread' = left
  BY DEF TakeByte
<1>5. /\ Len(unread') <= RIO_BUFSIZE
      /\ conn = "none" \/ conn = "broken" \/ reader = "closed" => pipe' = <<>>
      /\ conn # "none"
  BY <1>1, <1>3, <1>4, SizesAssumption DEF Inv, TypeOK, PipeInv
<1>6. CASE ~IsComplete(taken)
  <2>1. line' = taken /\ UNCHANGED <<reader, got>>
    BY <1>6 DEF TakeByte
  <2>2. Len(taken) < MAX_LEN /\ taken[Len(taken)] # Newline
    BY <1>3, <1>6, MaxLenAssumption DEF IsComplete, Inv, TypeOK
  <2> HIDE DEF taken, left
  <2>3. \A i \in 1..Len(taken) : taken[i] # Newline
    BY <1>3, <2>2 DEF Inv, LineInv
  <2>4. Inv'
    BY <1>1, <1>2, <1>4, <1>5, <2>1, <2>2, <2>3
       DEF Inv, TypeOK, LineInv, PipeInv, writer
  <2> QED
    BY <1>1, <1>2, <1>4, <2>1, <2>4 DEF Unseen, Rest, StreamConn
<1>7. CASE IsComplete(taken)
  <2>1. reader' = "idle" /\ line' = <<>> /\ got' = Append(got, Received(taken))
    BY <1>7 DEF TakeByte, Returns
  <2>2. taken[Len(taken)] = Newline \/ Len(taken) = MAX_LEN
    BY <1>7 DEF IsComplete
  <2> HIDE DEF taken, left
  <2>3. Inv'
    BY <1>1, <1>2, <1>4, <1>5, <2>1, EmptySeq, MaxLenAssumption
       DEF Inv, TypeOK, LineInv, PipeInv, writer
  <2>4. left \o pipe \in Seq(Bytes) /\ Len(left \o pipe) \in Nat
    BY <1>1, <1>2, ConcatProperties, LenProperties
  <2>5. taken \o left \o pipe = taken \o (left \o pipe)
    <3>1. taken \in Seq(Bytes) /\ left \in Seq(Bytes) /\ pipe \in Seq(Bytes)
      BY <1>1, <1>2
    <3> QED
      BY <3>1, ConcatAssociative
  <2>6. FirstOf(taken \o (left \o pipe), Len(taken)) = taken
        /\ AllBut(taken \o (left \o pipe), Len(taken)) = left \o pipe
    BY <1>2, <2>4, Parts
  <2>7. <<>> \o left \o pipe = left \o pipe
    BY <1>2, ConcatEmptySeq
  <2>8. Len(taken) \in 1..MAX_LEN /\ Len(taken) <= Len(line \o unread \o pipe)
    <3>1. Len(taken \o (left \o pipe)) = Len(taken) + Len(left \o pipe)
      BY <1>2, <2>4, ConcatProperties
    <3>2. Len(line \o unread \o pipe) = Len(taken) + Len(left \o pipe)
      BY <1>2, <2>5, <3>1
    <3>3. Len(taken) \in 1..MAX_LEN
      BY <1>3, MaxLenAssumption DEF Inv, TypeOK
    <3> QED
      BY <2>4, <3>2, <3>3
  <2>9. Stream!IsLine(taken, left \o pipe)
    <3>1. \A i \in 1..(Len(taken) - 1) : taken[i] # Newline
      BY <1>3 DEF Inv, LineInv
    <3> QED
      BY <2>2, <3>1, SameFormat DEF Stream!IsLine
  <2>10. line' \o unread' \o pipe' = left \o pipe
    BY <1>1, <1>4, <2>1, <2>7
  <2>11. /\ Stream!Prefix(line \o unread \o pipe, Len(taken)) = taken
         /\ Stream!Suffix(line \o unread \o pipe, Len(taken)) = left \o pipe
    BY <1>2, <2>5, <2>6, SameFormat
  <2>12. got' = Append(got, Stream!Received(taken))
    BY <2>1, SameFormat
  <2>13. Stream!Receive
    BY <1>1, <2>8, <2>9, <2>10, <2>11, <2>12 DEF Stream!Receive
  <2> QED
    BY <2>3, <2>13 DEF Stream!Next
<1> QED
  BY <1>6, <1>7

LEMMA EndStep ==
  ASSUME Inv, ReadsEnd \/ ReadFails PROVE Inv' /\ Stream!Next
<1>1. /\ line \in Seq(Bytes) /\ unread = <<>> /\ pipe = <<>> /\ reader = "receive"
      /\ line' = <<>> /\ reader' = "idle" /\ UNCHANGED <<writer, conn, pipe, unread>>
      /\ Len(line) \in Nat /\ Len(line) < MAX_LEN
  BY LenProperties DEF Inv, TypeOK, PipeInv, ReadsEnd, ReadFails, Returns
<1>2. Inv'
  BY <1>1, EmptySeq, MaxLenAssumption DEF Inv, TypeOK, LineInv, PipeInv, writer
<1>3. line \o <<>> = line /\ <<>> \o <<>> = <<>>
  BY <1>1, ConcatEmptySeq
<1>4. line \o unread \o pipe = line /\ line' \o unread' \o pipe' = <<>>
  BY <1>1, <1>3
<1>5. CASE ReadsEnd /\ line # <<>>
  <2>1. got' = Append(got, Stream!Received(line)) /\ conn = "shut"
    BY <1>5, SameFormat DEF ReadsEnd, Returns
  <2>2. FirstOf(line, Len(line)) = line /\ AllBut(line, Len(line)) = <<>>
    BY <1>1, SubSeqFull, SubSeqEmpty DEF FirstOf, AllBut
  <2>3. Stream!IsLine(line, <<>>)
    BY <1>1, <2>1, SameFormat DEF Stream!IsLine, Inv, LineInv
  <2>4. Len(line) \in 1..MAX_LEN
    BY <1>1, <1>5, EmptySeq, MaxLenAssumption
  <2>5. Stream!Receive
    BY <1>1, <1>4, <2>1, <2>2, <2>3, <2>4, SameFormat DEF Stream!Receive
  <2> QED
    BY <1>2, <2>5 DEF Stream!Next
<1>6. CASE ~(ReadsEnd /\ line # <<>>)
  <2>1. /\ got' = Append(got, Stream!Failure(Stream!EOF_OR_ERROR))
        /\ (conn = "shut" /\ line = <<>>) \/ conn = "broken"
    BY <1>6, SameFormat DEF ReadsEnd, ReadFails, Returns
  <2>2. ~Stream!Contains(line, Stream!Newline)
    BY <1>1, SameFormat, LenProperties DEF Contains, Inv, LineInv
  <2>3. Stream!End
    BY <1>1, <1>4, <2>1, <2>2 DEF Stream!End
  <2> QED
    BY <1>2, <2>3 DEF Stream!Next
<1> QED
  BY <1>5, <1>6

\* Every step keeps the invariant, and is a step of the stream or unseen by it.
LEMMA StepInv ==
  ASSUME Inv, [Next]_vars PROVE Inv' /\ [Stream!Next]_(Stream!vars)
<1>1. CASE UNCHANGED vars
  BY <1>1 DEF vars, writer, receiver, Inv, TypeOK, LineInv, PipeInv, Stream!vars
<1>2. ASSUME Unseen PROVE UNCHANGED Stream!vars
  BY <1>2 DEF Unseen, Rest, StreamConn, Stream!vars
<1> QED
  BY <1>1, <1>2, ConnectStep, SendStep, QuietStep, RefillStep, WriteStep, OtherStep,
     EndsStep, TakeStep, EndStep DEF Next, ReaderRuns

LEMMA Invariance == Spec => []Inv
BY InitInv, StepInv, PTL DEF Spec

\* The variables keep to their values, and neither receive's buffer nor rio_t's
\* overflows (rio_readlineb is given one byte less than the buffer has).
THEOREM TypeCorrect == Spec => []TypeOK
<1>1. Inv => TypeOK
  BY DEF Inv
<1> QED
  BY <1>1, Invariance, PTL

\* However write, read and the buffers cut what was written, receive returns the
\* lines of one stream of bytes.
THEOREM ImplementsStream == Spec => ImplementsLineStream
BY InitInv, StepInv, Invariance, PTL DEF Spec, ImplementsLineStream, Stream!Spec

------------------------------------------------------------------------------
(* What is sent is received *)

LEMMA Distinct ==
  /\ Colon # Newline /\ Colon # Return /\ Colon # Nul /\ Newline # Nul
  /\ Newline # Return
BY DEF Colon, Newline, Return, Nul

LEMMA EncodedBytes ==
  ASSUME NEW m \in Msgs
  PROVE  /\ m.tag \in Seq(Bytes) /\ m.data \in Seq(Bytes)
         /\ m = [tag |-> m.tag, data |-> m.data]
         /\ Len(m.tag) \in Nat /\ Len(m.data) \in Nat
         /\ Len(Encoded(m)) = Len(m.tag) + Len(m.data) + 2
         /\ Len(Encoded(m)) \in Nat /\ Len(Encoded(m)) > 0 /\ Encoded(m) # <<>>
         /\ \A i \in 1..Len(m.tag) : Encoded(m)[i] = m.tag[i]
         /\ Encoded(m)[Len(m.tag) + 1] = Colon
         /\ \A i \in 1..Len(m.data) : Encoded(m)[Len(m.tag) + 1 + i] = m.data[i]
         /\ Encoded(m)[Len(m.tag) + Len(m.data) + 2] = Newline
<1> DEFINE tag == m.tag
           data == m.data
           start == tag \o <<Colon>>
           text == start \o data
<1>1. tag \in Seq(Bytes) /\ data \in Seq(Bytes) /\ m = [tag |-> tag, data |-> data]
  BY MsgsAssumption
<1>2. <<Colon>> \in Seq(Bytes) /\ <<Newline>> \in Seq(Bytes)
      /\ Len(<<Colon>>) = 1 /\ Len(<<Newline>>) = 1
      /\ <<Colon>>[1] = Colon /\ <<Newline>>[1] = Newline
  BY BytesAssumption
<1>3. Encoded(m) = text \o <<Newline>>
  BY DEF Encoded
<1> HIDE DEF tag, data
<1>4. Len(tag) \in Nat /\ Len(data) \in Nat
  BY <1>1, LenProperties
<1>5. /\ start \in Seq(Bytes) /\ Len(start) = Len(tag) + 1
      /\ \A i \in 1..Len(tag) : start[i] = tag[i]
      /\ start[Len(tag) + 1] = Colon
  BY <1>1, <1>2, <1>4, ConcatProperties
<1> HIDE DEF start
<1>6. /\ text \in Seq(Bytes) /\ Len(text) = Len(tag) + 1 + Len(data)
      /\ \A i \in 1..Len(tag) + 1 : text[i] = start[i]
      /\ \A i \in 1..Len(data) : text[Len(tag) + 1 + i] = data[i]
  <2>1. /\ text \in Seq(Bytes) /\ Len(text) = Len(start) + Len(data)
        /\ \A i \in 1..Len(start) : text[i] = start[i]
        /\ \A i \in 1..Len(data) : text[Len(start) + i] = data[i]
    <3>1. start \in Seq(Bytes) /\ data \in Seq(Bytes)
      BY <1>1, <1>5
    <3> QED
      BY <3>1, PartBytes
  <2> QED
    BY <1>5, <2>1
<1> HIDE DEF text
<1>7. /\ Len(Encoded(m)) = Len(tag) + Len(data) + 2
      /\ \A i \in 1..Len(tag) + 1 + Len(data) : Encoded(m)[i] = text[i]
      /\ Encoded(m)[Len(tag) + Len(data) + 2] = Newline
  BY <1>2, <1>3, <1>4, <1>6, ConcatProperties
<1>8. /\ \A i \in 1..Len(tag) : Encoded(m)[i] = tag[i]
      /\ Encoded(m)[Len(tag) + 1] = Colon
      /\ \A i \in 1..Len(data) : Encoded(m)[Len(tag) + 1 + i] = data[i]
  BY <1>4, <1>5, <1>6, <1>7
<1>9. Len(Encoded(m)) \in Nat /\ Len(Encoded(m)) > 0
  BY <1>4, <1>7
<1>10. Encoded(m) # <<>>
  BY <1>9, EmptySeq
<1> QED
  BY <1>1, <1>4, <1>7, <1>8, <1>9, <1>10 DEF tag, data

\* The only newline of a message is its last byte, and no byte of it is a NUL.
LEMMA NewlineLast ==
  ASSUME NEW m \in Msgs
  PROVE  \A i \in 1..Len(Encoded(m)) :
           /\ Encoded(m)[i] = Newline <=> i = Len(Encoded(m))
           /\ Encoded(m)[i] # Nul
<1> DEFINE t == Len(m.tag)
           d == Len(m.data)
           E == Encoded(m)
<1>1. /\ t \in Nat /\ d \in Nat /\ Len(E) = t + d + 2
      /\ \A i \in 1..t : E[i] = m.tag[i]
      /\ E[t + 1] = Colon /\ E[t + d + 2] = Newline
      /\ \A i \in 1..d : E[t + 1 + i] = m.data[i]
  BY EncodedBytes
<1>2. /\ \A i \in 1..t : m.tag[i] # Newline /\ m.tag[i] # Nul
      /\ \A i \in 1..d : m.data[i] # Newline /\ m.data[i] # Nul
  BY EncodedBytes, LenProperties, MsgsAssumption DEF Plain, Contains
<1> HIDE DEF t, d, E
<1>3. \A i \in 1..Len(E) : i \in 1..t \/ i = t + 1 \/ i - t - 1 \in 1..d \/ i = Len(E)
  BY <1>1
<1>4. \A i \in 1..Len(E) : (E[i] = Newline <=> i = Len(E)) /\ E[i] # Nul
  <2> TAKE i \in 1..Len(E)
  <2>1. CASE i \in 1..t
    BY <1>1, <1>2, <2>1
  <2>2. CASE i = t + 1
    BY <1>1, <2>2, Distinct
  <2>3. CASE i - t - 1 \in 1..d
    <3>1. i = t + 1 + (i - t - 1)
      BY <1>1
    <3> QED
      BY <1>1, <1>2, <2>3, <3>1
  <2>4. CASE i = Len(E)
    BY <1>1, <2>4, Distinct
  <2> QED
    BY <1>3, <2>1, <2>2, <2>3, <2>4
<1> QED
  BY <1>4 DEF E

\* receive makes of the line of a message that message.
LEMMA ReceivedEncoded ==
  ASSUME NEW m \in Msgs, Fits(m)
  PROVE  Received(Encoded(m)) = [result |-> SUCCESS, msg |-> m]
<1> DEFINE t == Len(m.tag)
           d == Len(m.data)
           E == Encoded(m)
           text == SubSeq(E, 1, t + 1 + d)
<1>1. /\ t \in Nat /\ d \in Nat /\ Len(E) = t + d + 2
      /\ \A i \in 1..t : E[i] = m.tag[i]
      /\ E[t + 1] = Colon /\ E[t + d + 2] = Newline
      /\ \A i \in 1..d : E[t + 1 + i] = m.data[i]
      /\ m.tag \in Seq(Bytes) /\ m.data \in Seq(Bytes)
      /\ m = [tag |-> m.tag, data |-> m.data]
  BY EncodedBytes
<1>2. E \in Seq(Bytes) /\ DOMAIN E = 1..Len(E)
  BY EncodedType, LenProperties
<1>3. ~Contains(E, Nul)
  BY <1>2, NewlineLast DEF Contains
<1>4. CString(E) = E
  BY <1>3 DEF CString
<1>5. \A i \in 1..t : m.tag[i] # Colon
  BY <1>1, LenProperties, MsgsAssumption DEF Plain, Contains
<1>6. d > 0 => m.data[d] # Return
  BY <1>1, EmptySeq, MsgsAssumption DEF Plain
<1>7. \A i \in 1..Len(E) : E[i] = Newline <=> i = Len(E)
  BY NewlineLast
<1>8. Len(E) <= MAX_LEN
  BY DEF Fits
<1> HIDE DEF t, d, E
<1>9. Trimmed(E) = text
  <2> DEFINE kept == {i \in DOMAIN E : E[i] \notin {Newline, Return}}
  <2>1. t + 1 + d \in kept
    <3>1. E[t + 1 + d] # Return
      <4>1. CASE d = 0
        BY <1>1, <4>1, Distinct
      <4>2. CASE d > 0
        <5>1. d \in 1..d
          BY <1>1, <4>2
        <5>2. E[t + 1 + d] = m.data[d]
          BY <1>1, <5>1
        <5> QED
          BY <1>6, <4>2, <5>2
      <4> QED
        BY <1>1, <4>1, <4>2
    <3> QED
      BY <1>1, <1>2, <1>7, <3>1
  <2>2. \A i \in kept : i \in Nat /\ i <= t + 1 + d
    BY <1>1, <1>2, <1>7
  <2>3. (CHOOSE i \in kept : \A j \in kept : j <= i) = t + 1 + d
    BY <1>1, <2>1, <2>2
  <2>4. kept # {}
    BY <2>1
  <2> QED
    BY <2>3, <2>4 DEF Trimmed
<1>10. /\ text \in Seq(Bytes) /\ Len(text) = t + 1 + d
       /\ \A i \in 1..t + 1 + d : text[i] = E[i]
  BY <1>1, <1>2, SubSeqProperties, ElementOfSeq
<1> HIDE DEF text
<1>11. DOMAIN text = 1..t + 1 + d /\ text # <<>>
  BY <1>1, <1>10, LenProperties, EmptySeq
<1>12. First(text, Colon) = t + 1 /\ Contains(text, Colon)
  <2>1. /\ t + 1 \in DOMAIN text /\ text[t + 1] = Colon
        /\ \A j \in 1..t : text[j] # Colon
    BY <1>1, <1>5, <1>10, <1>11
  <2>2. \A i \in DOMAIN text :
          text[i] = Colon /\ (\A j \in 1..(i - 1) : text[j] # Colon) <=> i = t + 1
    BY <1>1, <1>11, <2>1
  <2> QED
    BY <2>1, <2>2 DEF First, Contains
<1>13. Before(text, Colon) = m.tag
  <2>1. /\ SubSeq(text, 1, t) \in Seq(Bytes) /\ Len(SubSeq(text, 1, t)) = t
        /\ \A i \in 1..t : SubSeq(text, 1, t)[i] = text[i]
    BY <1>1, <1>10, SubSeqProperties, ElementOfSeq
  <2>2. SubSeq(text, 1, t) = m.tag
    <3>1. \A i \in 1..t : SubSeq(text, 1, t)[i] = m.tag[i]
      BY <1>1, <1>10, <2>1
    <3> QED
      BY <1>1, <2>1, <3>1, SeqEqual DEF t
  <2>3. First(text, Colon) - 1 = t
    BY <1>1, <1>12
  <2> QED
    BY <2>2, <2>3 DEF Before
<1>14. After(text, Colon) = m.data
  <2> DEFINE u == AllBut(text, t + 1)
  <2>1. t + 1 \in 0..Len(text) /\ Len(text) - (t + 1) = d
    BY <1>1, <1>10
  <2>2. u \in Seq(Bytes) /\ Len(u) = d /\ \A i \in 1..d : u[i] = text[t + 1 + i]
    BY <1>10, <2>1, Split, LeftBytes
  <2>3. After(text, Colon) = u
    BY <1>12 DEF After, AllBut
  <2> HIDE DEF u
  <2>4. \A i \in 1..d : t + 1 + i \in 1..t + 1 + d
    BY <1>1
  <2>5. \A i \in 1..d : u[i] = m.data[i]
    BY <1>1, <1>10, <2>2, <2>4
  <2>6. u = m.data
    BY <1>1, <2>2, <2>5, SeqEqual DEF d
  <2> QED
    BY <2>3, <2>6
<1>15. Received(E) = [result |-> SUCCESS,
                      msg |-> [tag |-> Before(text, Colon), data |-> After(text, Colon)]]
  BY <1>1, <1>4, <1>8, <1>9, <1>11, <1>12, MaxLenAssumption DEF Received
<1> QED
  BY <1>1, <1>13, <1>14, <1>15 DEF E

\* The line of a message that was sent.
LineOf(i) == Encoded(sent[i])

\* The message, and the place in its line, of the byte that is written next.
NextMsg == IF writing = <<>> THEN Len(sent) + 1 ELSE Len(sent)
NextPos == IF writing = <<>> THEN 1 ELSE Len(LineOf(Len(sent))) - Len(writing) + 1

\* Nothing that was written is lost, and nothing was left out at the end.
Linked == conn \in {"none", "open"} \/ (conn = "shut" /\ Rest # <<>>)

\* Each byte on its way is the pos[j]-th of the msg[j]-th message; they follow
\* each other, the first ones belong to the message after those received, and
\* after the last one comes the one that is written next.
Labels(msg, pos) ==
  /\ msg \in [1..Len(Rest) + 1 -> Nat] /\ pos \in [1..Len(Rest) + 1 -> Nat]
  /\ \A j \in 1..Len(Rest) :
       /\ msg[j] \in 1..Len(sent)
       /\ pos[j] \in 1..Len(LineOf(msg[j]))
       /\ Rest[j] = LineOf(msg[j])[pos[j]]
       /\ Rest[j] = Newline => msg[j + 1] = msg[j] + 1 /\ pos[j + 1] = 1
       /\ Rest[j] # Newline => msg[j + 1] = msg[j] /\ pos[j + 1] = pos[j] + 1
  /\ \A j \in 1..Len(line) + 1 : msg[j] = Len(got) + 1 /\ pos[j] = j
  /\ Linked => msg[Len(Rest) + 1] = NextMsg /\ pos[Len(Rest) + 1] = NextPos

Labelled == \E msg, pos : Labels(msg, pos)

\* What is left of the last message.
WritingInv ==
  /\ \A i \in 1..Len(sent) : Fits(sent[i])
  /\ writing # <<>> =>
       /\ conn # "none"
       /\ Len(sent) > 0
       /\ Len(writing) <= Len(LineOf(Len(sent)))
       /\ \A i \in 1..Len(writing) :
            writing[i] = LineOf(Len(sent))[Len(LineOf(Len(sent))) - Len(writing) + i]

Outcomes == {Failure(EOF_OR_ERROR)} \cup {Received(l) : l \in Seq(Bytes)}

SentInv ==
  /\ Inv
  /\ got \in Seq(Outcomes)
  /\ reader = "receive" => ~HasEnded
  /\ program = "Connection" =>
       /\ WritingInv
       /\ ReceivedAsSent
       /\ HasEnded \/ reader = "closed" \/ Labelled

LEMMA SentInit == Init => SentInv
<1> SUFFICES ASSUME Init PROVE SentInv
  OBVIOUS
<1>1. Inv /\ got \in Seq(Outcomes)
  BY InitInv, EmptySeq DEF Init
<1>2. Len(sent) = 0 /\ writing = <<>> /\ got = <<>> /\ Len(line) = 0 /\ Len(got) = 0
  BY EmptySeq DEF Init
<1>3. Rest = <<>> /\ Len(Rest) = 0
  <2>1. <<>> \o <<>> \o <<>> = <<>>
    BY EmptySeq, ConcatEmptySeq
  <2> QED
    BY <2>1, EmptySeq DEF Init, Rest
<1>4. WritingInv /\ ReceivedAsSent
  BY <1>2 DEF WritingInv, ReceivedAsSent
<1>5. Labelled
  <2> DEFINE ones == [j \in 1..1 |-> 1]
  <2>1. Labels(ones, ones)
    BY <1>2, <1>3 DEF Labels, NextMsg, NextPos
  <2> QED
    BY <2>1 DEF Labelled
<1> QED
  BY <1>1, <1>4, <1>5 DEF SentInv, Init

\* Labels stay what they are where bytes and messages do.
LEMMA SameLabels ==
  ASSUME Labelled, UNCHANGED <<Rest, line, sent, writing, got>>, Linked' => Linked
  PROVE  Labelled'
<1>1. PICK msg, pos : Labels(msg, pos)
  BY DEF Labelled
<1>2. Labels(msg, pos)'
  BY <1>1 DEF Labels, LineOf, NextMsg, NextPos
<1> QED
  BY <1>2 DEF Labelled

\* What was received as it was sent stays so.
LEMMA SameReceipts ==
  ASSUME ReceivedAsSent, got' = got, sent' = sent, program' = program,
         program = "Connection" /\ Cut => Cut' /\ writing' = writing
  PROVE  ReceivedAsSent'
BY DEF ReceivedAsSent, WrittenOf

\* Steps that neither write nor return.
LEMMA SameSent ==
  ASSUME SentInv, Inv', UNCHANGED <<Rest, line, sent, writing, got, program>>,
         Linked' => Linked, program = "Connection" /\ Cut => Cut',
         reader' = "receive" => ~HasEnded,
         reader = "closed" => reader' = "closed", conn' = "none" => conn = "none"
  PROVE  SentInv'
<1>1. HasEnded' <=> HasEnded
  BY DEF HasEnded
<1>2. WritingInv => WritingInv'
  BY DEF WritingInv, LineOf
<1>3. ReceivedAsSent => ReceivedAsSent'
  BY SameReceipts
<1>4. Labelled => Labelled'
  BY SameLabels
<1> QED
  BY <1>1, <1>2, <1>3, <1>4 DEF SentInv

LEMMA QuietSent ==
  ASSUME SentInv,
         \/ Connect \/ WriteFails \/ CallReceive \/ Refill \/ WriterEnds
         \/ \E m \in Msgs : SendRefuses(m)
  PROVE  SentInv'
<1>1. Inv' /\ UNCHANGED <<Rest, got>>
  BY ConnectStep, QuietStep, RefillStep, SendStep, EndsStep
     DEF SentInv, Unseen, WriterEnds, receiver, Rest
<1>2. UNCHANGED <<sent, writing, program>>
  BY DEF Connect, WriteFails, CallReceive, Refill, WriterEnds, SendRefuses, writer
<1>3. line' = line
  BY DEF Connect, WriteFails, CallReceive, Refill, WriterEnds, SendRefuses, receiver,
         SentInv, Inv, LineInv
<1>4. /\ Linked' => Linked
      /\ program = "Connection" /\ Cut => Cut'
      /\ reader' = "receive" => ~HasEnded
      /\ reader = "closed" => reader' = "closed"
      /\ conn' = "none" => conn = "none"
  <2>1. \/ conn' = conn
        \/ conn = "none" /\ conn' = "open"
        \/ conn = "open" /\ conn' = "shut"
    BY DEF Connect, WriteFails, CallReceive, Refill, WriterEnds, SendRefuses
  <2>2. reader' = reader \/ (reader # "closed" /\ reader' = "receive" /\ ~HasEnded)
    <3>1. CASE CallReceive
      BY <3>1 DEF CallReceive
    <3>2. CASE Connect \/ Refill
      BY <3>2 DEF Connect, Refill
    <3>3. CASE ~(CallReceive \/ Connect \/ Refill)
      <4>1. UNCHANGED receiver
        BY <3>3 DEF WriteFails, WriterEnds, SendRefuses
      <4> QED
        BY <4>1 DEF receiver
    <3> QED
      BY <3>1, <3>2, <3>3
  <2>3. reader' = "receive" => ~HasEnded
    BY <2>2 DEF SentInv
  <2>4. Linked' => Linked
    BY <1>1, <2>1 DEF Linked
  <2>5. program = "Connection" /\ Cut => Cut'
    BY <1>2, <2>1 DEF Cut, SentInv, WritingInv
  <2> QED
    BY <2>1, <2>2, <2>3, <2>4, <2>5
<1> QED
  BY <1>1, <1>2, <1>3, <1>4, SameSent

\* A message that starts follows the one before it.
LEMMA StartSent ==
  ASSUME SentInv, NEW m \in Msgs, SendStarts(m) PROVE SentInv'
<1>1. /\ Inv' /\ UNCHANGED <<Rest, got>>
      /\ program = "Connection" /\ writing = <<>> /\ Fits(m)
      /\ writing' = Encoded(m) /\ sent' = Append(sent, m)
      /\ UNCHANGED <<program, conn, reader, line>> /\ conn \in {"open", "broken"}
  <2>1. Inv' /\ UNCHANGED <<Rest, got>>
    BY SendStep DEF SentInv, Unseen
  <2> QED
    BY <2>1 DEF SendStarts, CallsSend, receiver
<1>2. /\ sent \in Seq(Msgs) /\ Len(sent) \in Nat
      /\ Len(sent') = Len(sent) + 1 /\ sent'[Len(sent) + 1] = m
      /\ \A i \in 1..Len(sent) : sent'[i] = sent[i]
  BY <1>1, AppendProperties, LenProperties DEF SentInv, Inv, TypeOK
<1>3. Len(Encoded(m)) \in Nat /\ Len(Encoded(m)) > 0 /\ Encoded(m) # <<>>
  BY EncodedBytes
<1>4. WritingInv'
  <2>1. LineOf(Len(sent))' = Encoded(m)
    BY <1>2 DEF LineOf
  <2>2. \A i \in 1..Len(sent') : Fits(sent'[i])
    BY <1>1, <1>2 DEF SentInv, WritingInv
  <2>3. \A i \in 1..Len(Encoded(m)) :
          Encoded(m)[i] = Encoded(m)[Len(Encoded(m)) - Len(Encoded(m)) + i]
    <3>1. \A i \in 1..Len(Encoded(m)) : Len(Encoded(m)) - Len(Encoded(m)) + i = i
      BY <1>3
    <3> QED
      BY <3>1
  <2> QED
    BY <1>1, <1>2, <1>3, <2>1, <2>2, <2>3 DEF WritingInv
<1>5. ReceivedAsSent'
  <2>1. ~Cut
    BY <1>1 DEF Cut
  <2>2. \A i \in DOMAIN got : got[i].result # EOF_OR_ERROR =>
          i <= Len(sent) /\ got[i] = [result |-> SUCCESS, msg |-> sent[i]]
    BY <1>1, <2>1 DEF SentInv, ReceivedAsSent
  <2>3. DOMAIN got = 1..Len(got) /\ Len(got) \in Nat
    BY LenProperties DEF SentInv
  <2>4. \A i \in DOMAIN got : i <= Len(sent) => i <= Len(sent') /\ sent'[i] = sent[i]
    BY <1>2, <2>3
  <2> QED
    BY <1>1, <2>2, <2>4 DEF ReceivedAsSent
<1>6. ASSUME Labelled PROVE Labelled'
  <2>1. PICK msg, pos : Labels(msg, pos)
    BY <1>6 DEF Labelled
  <2>2. \A j \in 1..Len(sent) : LineOf(j)' = LineOf(j)
    BY <1>2 DEF LineOf
  <2>3. NextMsg' = NextMsg /\ NextPos' = NextPos
    <3>1. LineOf(Len(sent))' = Encoded(m)
      BY <1>2 DEF LineOf
    <3> QED
      BY <1>1, <1>2, <1>3, <3>1 DEF NextMsg, NextPos
  <2>4. Linked' => Linked
    BY <1>1 DEF Linked
  <2>5. \A j \in 1..Len(Rest) : /\ msg[j] \in 1..Len(sent')
                                /\ LineOf(msg[j])' = LineOf(msg[j])
    <3>1. \A j \in 1..Len(sent) : j \in 1..Len(sent')
      BY <1>2
    <3> QED
      BY <2>1, <2>2, <3>1 DEF Labels
  <2>6. Labels(msg, pos)'
    BY <1>1, <2>1, <2>3, <2>4, <2>5 DEF Labels
  <2> QED
    BY <2>6 DEF Labelled
<1>7. HasEnded' <=> HasEnded
  BY <1>1 DEF HasEnded
<1> QED
  BY <1>1, <1>4, <1>5, <1>6, <1>7 DEF SentInv

\* What was received as it was sent stays so while the connection is open.
LEMMA OpenReceipts ==
  ASSUME ReceivedAsSent, conn = "open", UNCHANGED <<got, sent, program>>
  PROVE  ReceivedAsSent'
BY DEF ReceivedAsSent, Cut

\* Written bytes are the next ones of the last message.
LEMMA WriteSent ==
  ASSUME SentInv, WriteSome PROVE SentInv'
<1>1. PICK n \in 1..(Room - Len(pipe)) : Write(n)
  BY DEF WriteSome
<1> DEFINE w == Len(writing)
           E == LineOf(Len(sent))
           some == FirstOf(writing, n)
<1>2. /\ Inv' /\ writing # <<>> /\ conn = "open"
      /\ UNCHANGED <<program, sent, unread, reader, line, got>>
      /\ Takes(some) /\ writing' = AllBut(writing, n)
  BY <1>1, WriteStep DEF SentInv, Write, Takes, receiver
<1>3. /\ w \in Nat /\ n \in 1..w /\ n \in Nat /\ writing \in Seq(Bytes)
  <2>1. w \in Nat /\ writing \in Seq(Bytes)
    BY LenProperties DEF SentInv, Inv
  <2> QED
    BY <1>1, <2>1, RestType, SizesAssumption DEF SentInv, Write
<1>4. /\ some \in Seq(Bytes) /\ Len(some) = n
      /\ \A i \in 1..n : some[i] = writing[i]
      /\ AllBut(writing, n) \in Seq(Bytes) /\ Len(AllBut(writing, n)) = w - n
      /\ \A i \in 1..(w - n) : AllBut(writing, n)[i] = writing[n + i]
  <2>1. n \in 0..Len(writing)
    BY <1>3
  <2>2. \A i \in 1..n : FirstOf(writing, n)[i] = writing[i]
    BY <1>3, SubSeqProperties, ElementOfSeq DEF FirstOf
  <2> QED
    BY <1>3, <2>1, <2>2, Split, LeftBytes
<1>5. /\ Len(writing') = w - n
      /\ \A i \in 1..(w - n) : writing'[i] = writing[n + i]
      /\ writing' = <<>> <=> n = w
  BY <1>2, <1>3, <1>4, EmptySeq
<1>6. LineOf(Len(sent))' = E /\ \A i \in 1..Len(sent) : LineOf(i)' = LineOf(i)
  BY <1>2 DEF LineOf
<1>7. SUFFICES ASSUME program = "Connection" PROVE WritingInv' /\ ReceivedAsSent' /\
                                             (HasEnded' \/ reader' = "closed" \/ Labelled')
  BY <1>2 DEF SentInv, HasEnded
<1>8. /\ Len(sent) > 0 /\ Len(sent) \in Nat /\ sent \in Seq(Msgs) /\ w <= Len(E)
      /\ Len(E) \in Nat
      /\ \A i \in 1..w : writing[i] = E[Len(E) - w + i]
  <2>1. /\ Len(sent) > 0 /\ w <= Len(E)
        /\ \A i \in 1..w : writing[i] = E[Len(E) - w + i]
    BY <1>2, <1>7 DEF SentInv, WritingInv
  <2>2. sent \in Seq(Msgs) /\ Len(sent) \in Nat
    BY LenProperties DEF SentInv, Inv, TypeOK
  <2>3. sent[Len(sent)] \in Msgs
    BY <2>1, <2>2, ElementOfSeq
  <2>4. Len(E) \in Nat
    BY <2>3, EncodedType, LenProperties DEF LineOf
  <2> QED
    BY <2>1, <2>2, <2>4
<1> HIDE DEF w, E, some
<1>9. WritingInv'
  <2>1. \A i \in 1..(w - n) : writing'[i] = E[Len(E) - (w - n) + i]
    <3> TAKE i \in 1..(w - n)
    <3>1. n + i \in 1..w /\ Len(E) - w + (n + i) = Len(E) - (w - n) + i
      BY <1>3, <1>8
    <3> QED
      BY <1>5, <1>8, <3>1
  <2>2. w - n <= Len(E)
    BY <1>3, <1>8
  <2>3. conn' # "none"
    BY <1>2 DEF Takes
  <2> QED
    BY <1>2, <1>5, <1>6, <1>7, <1>8, <2>1, <2>2, <2>3 DEF SentInv, WritingInv
<1>10. ReceivedAsSent'
  BY <1>2, <1>7, OpenReceipts DEF SentInv
<1>11. ASSUME Labelled, reader # "closed" PROVE Labelled'
  <2>1. PICK msg, pos : Labels(msg, pos)
    BY <1>11 DEF Labelled
  <2> DEFINE r == Len(Rest)
  <2>2. pipe' = pipe \o some /\ conn' = "open"
    BY <1>2, <1>11 DEF Takes
  <2>3. Rest' = Rest \o some
    BY <1>2, <1>4, <2>2, Written DEF SentInv, Rest
  <2>4. /\ r \in Nat /\ Len(Rest') = r + n
        /\ \A j \in 1..r : Rest'[j] = Rest[j]
        /\ \A i \in 1..n : Rest'[r + i] = writing[i]
    <3>1. Rest \in Seq(Bytes)
      BY RestType DEF SentInv
    <3>2. some \in Seq(Bytes)
      BY <1>4
    <3>3. /\ Len(Rest \o some) = Len(Rest) + Len(some) /\ Len(Rest) \in Nat
          /\ \A j \in 1..Len(Rest) : (Rest \o some)[j] = Rest[j]
          /\ \A i \in 1..Len(some) : (Rest \o some)[Len(Rest) + i] = some[i]
      BY <3>1, <3>2, PartBytes, LenProperties
    <3> QED
      BY <1>4, <2>3, <3>3
  <2>5. msg[r + 1] = Len(sent) /\ pos[r + 1] = Len(E) - w + 1
    BY <1>2, <2>1 DEF Labels, Linked, NextMsg, NextPos, E, w
  <2>6. \A i \in 1..w : (writing[i] = Newline <=> i = w)
    <3>1. sent[Len(sent)] \in Msgs
      BY <1>8, ElementOfSeq
    <3>2. \A i \in 1..Len(E) : E[i] = Newline <=> i = Len(E)
      BY <3>1, NewlineLast DEF E, LineOf
    <3>3. \A i \in 1..w : Len(E) - w + i \in 1..Len(E)
                          /\ (Len(E) - w + i = Len(E) <=> i = w)
      <4>1. w \in Nat /\ Len(E) \in Nat /\ w <= Len(E)
        BY <1>3, <1>8
      <4> QED
        BY <4>1
    <3> QED
      BY <1>8, <3>2, <3>3
  <2> DEFINE last == r + n + 1
  <2>0. PICK newMsg, newPos :
          /\ newMsg = [j \in 1..last |->
                         IF j <= r THEN msg[j]
                         ELSE IF j = last /\ n = w THEN Len(sent) + 1 ELSE Len(sent)]
          /\ newPos = [j \in 1..last |->
                         IF j <= r THEN pos[j]
                         ELSE IF j = last /\ n = w THEN 1 ELSE Len(E) - w + (j - r)]
    OBVIOUS
  <2> HIDE DEF r
  <2>7. /\ last \in Nat /\ last = Len(Rest') + 1 /\ r + 1 < last
        /\ w \in Nat /\ n \in 1..w /\ Len(E) \in Nat /\ w <= Len(E) /\ r \in Nat
        /\ Len(sent) \in Nat /\ Len(sent) > 0
        /\ msg \in [1..r + 1 -> Nat] /\ pos \in [1..r + 1 -> Nat]
    BY <1>3, <1>8, <2>1, <2>4 DEF Labels, r
  <2>8. /\ newMsg \in [1..Len(Rest') + 1 -> Nat]
        /\ newPos \in [1..Len(Rest') + 1 -> Nat]
    <3>1. \A j \in 1..last :
            /\ (IF j <= r THEN msg[j]
                ELSE IF j = last /\ n = w THEN Len(sent) + 1 ELSE Len(sent)) \in Nat
            /\ (IF j <= r THEN pos[j]
                ELSE IF j = last /\ n = w THEN 1 ELSE Len(E) - w + (j - r)) \in Nat
      BY <2>7
    <3> QED
      BY <2>0, <2>7, <3>1
  <2>9. \A j \in 1..r + 1 : newMsg[j] = msg[j] /\ newPos[j] = pos[j]
    BY <2>0, <2>5, <2>7
  <2>10. \A i \in 1..n : newMsg[r + i] = Len(sent) /\ newPos[r + i] = Len(E) - w + i
    <3>1. \A i \in 1..n : /\ r + i \in 1..last /\ ~(r + i <= r) /\ r + i # last
                          /\ (r + i) - r = i
      BY <2>7
    <3> QED
      BY <2>0, <3>1
  <2>11. /\ newMsg[last] = IF n = w THEN Len(sent) + 1 ELSE Len(sent)
         /\ newPos[last] = IF n = w THEN 1 ELSE Len(E) - (w - n) + 1
    <3>1. last \in 1..last /\ ~(last <= r) /\ Len(E) - w + (last - r) = Len(E) - (w - n) + 1
      BY <2>7
    <3> QED
      BY <2>0, <3>1
  <2> HIDE DEF last
  <2> DEFINE Right(j) ==
               /\ newMsg[j] \in 1..Len(sent)
               /\ newPos[j] \in 1..Len(LineOf(newMsg[j]))
               /\ Rest'[j] = LineOf(newMsg[j])[newPos[j]]
               /\ Rest'[j] = Newline => newMsg[j + 1] = newMsg[j] + 1 /\ newPos[j + 1] = 1
               /\ Rest'[j] # Newline =>
                    newMsg[j + 1] = newMsg[j] /\ newPos[j + 1] = newPos[j] + 1
  <2>12. \A j \in 1..r : Right(j)
    <3> TAKE j \in 1..r
    <3>1. j \in 1..r + 1 /\ j + 1 \in 1..r + 1
      BY <2>7
    <3>2. /\ msg[j] \in 1..Len(sent)
          /\ pos[j] \in 1..Len(LineOf(msg[j]))
          /\ Rest[j] = LineOf(msg[j])[pos[j]]
          /\ Rest[j] = Newline => msg[j + 1] = msg[j] + 1 /\ pos[j + 1] = 1
          /\ Rest[j] # Newline => msg[j + 1] = msg[j] /\ pos[j + 1] = pos[j] + 1
      BY <2>1 DEF Labels, r
    <3>3. Rest'[j] = Rest[j] /\ newMsg[j] = msg[j] /\ newPos[j] = pos[j]
          /\ newMsg[j + 1] = msg[j + 1] /\ newPos[j + 1] = pos[j + 1]
      BY <2>4, <2>9, <3>1
    <3> QED
      BY <3>2, <3>3
  <2>13. \A i \in 1..n : Right(r + i)
    <3> TAKE i \in 1..n
    <3>1. /\ newMsg[r + i] = Len(sent) /\ newPos[r + i] = Len(E) - w + i
          /\ Rest'[r + i] = writing[i]
      BY <2>4, <2>10
    <3>2. i \in 1..w /\ Len(E) - w + i \in 1..Len(E) /\ i \in Nat
      BY <2>7
    <3>3. writing[i] = E[Len(E) - w + i] /\ (writing[i] = Newline <=> i = w)
      BY <1>8, <2>6, <3>2
    <3>4. CASE i = w
      <4>1. n = w /\ last = r + i + 1
        BY <2>7, <3>4 DEF last
      <4>2. newMsg[r + i + 1] = Len(sent) + 1 /\ newPos[r + i + 1] = 1
        BY <2>11, <4>1
      <4> QED
        BY <2>7, <3>1, <3>2, <3>3, <3>4, <4>2 DEF E
    <3>5. CASE i # w
      <4>1. newMsg[r + i + 1] = Len(sent) /\ newPos[r + i + 1] = Len(E) - w + i + 1
        <5>1. CASE i = n
          <6>1. n # w /\ last = r + i + 1 /\ Len(E) - (w - n) + 1 = Len(E) - w + i + 1
            BY <2>7, <3>5, <5>1 DEF last
          <6> QED
            BY <2>11, <6>1
        <5>2. CASE i # n
          <6>1. i + 1 \in 1..n /\ r + i + 1 = r + (i + 1)
                /\ Len(E) - w + (i + 1) = Len(E) - w + i + 1
            BY <2>7, <5>2
          <6> QED
            BY <2>10, <6>1
        <5> QED
          BY <5>1, <5>2
      <4> QED
        BY <2>7, <3>1, <3>2, <3>3, <3>5, <4>1 DEF E
    <3> QED
      BY <3>4, <3>5
  <2>14. \A j \in 1..Len(Rest') : Right(j)
    <3> TAKE j \in 1..Len(Rest')
    <3>1. j \in 1..r \/ (j - r \in 1..n /\ r + (j - r) = j)
      BY <2>4, <2>7
    <3> HIDE DEF Right
    <3> QED
      BY <2>12, <2>13, <3>1
  <2>15. \A j \in 1..Len(line) + 1 : newMsg[j] = Len(got) + 1 /\ newPos[j] = j
    <3>1. Len(line) + 1 <= r + 1 /\ Len(line) \in Nat
      BY RestType DEF SentInv, r
    <3>2. \A j \in 1..Len(line) + 1 : j \in 1..r + 1
      BY <2>7, <3>1
    <3> QED
      BY <2>1, <2>9, <3>2 DEF Labels
  <2>16. newMsg[last] = NextMsg' /\ newPos[last] = NextPos'
    <3>1. CASE n = w
      BY <1>2, <1>5, <2>11, <3>1 DEF NextMsg, NextPos
    <3>2. CASE n # w
      <4>1. NextMsg' = Len(sent) /\ NextPos' = Len(E) - (w - n) + 1
        BY <1>2, <1>5, <1>6, <3>2 DEF NextMsg, NextPos
      <4> QED
        BY <2>11, <3>2, <4>1
    <3> QED
      BY <3>1, <3>2
  <2>17. \A j \in 1..Len(Rest') : LineOf(newMsg[j])' = LineOf(newMsg[j])
    BY <1>2 DEF LineOf
  <2>18. Labels(newMsg, newPos)'
    BY <1>2, <2>7, <2>8, <2>14, <2>15, <2>16, <2>17 DEF Labels
  <2> QED
    BY <2>18 DEF Labelled
<1> QED
  BY <1>2, <1>7, <1>9, <1>10, <1>11 DEF SentInv, HasEnded

\* These receive nothing, and what they lose was written last.
LEMMA LossSent ==
  ASSUME SentInv, Reset \/ ReaderCloses PROVE SentInv'
<1>1. /\ Inv' /\ UNCHANGED <<program, sent, writing, unread, line, got>>
      /\ conn # "none" /\ conn' # "none"
  BY EndsStep DEF SentInv, Reset, ReaderCloses, writer, receiver
<1>2. HasEnded' <=> HasEnded
  BY <1>1 DEF HasEnded
<1>3. reader' = "receive" => ~HasEnded
  BY DEF Reset, ReaderCloses, receiver, SentInv
<1>4. WritingInv => WritingInv'
  BY <1>1 DEF WritingInv, LineOf
<1>5. ReceivedAsSent => ReceivedAsSent'
  <2>1. Cut => Cut'
    BY <1>1 DEF Cut, Reset, ReaderCloses
  <2> QED
    BY <1>1, <2>1, SameReceipts
<1>6. ASSUME Labelled, Reset PROVE Labelled'
  <2> DEFINE r == Len(line) + Len(unread)
  <2>1. PICK msg, pos : Labels(msg, pos)
    BY <1>6 DEF Labelled
  <2>2. pipe' = <<>> /\ conn' = "broken"
    BY <1>6 DEF Reset
  <2>3. /\ Len(Rest') = r /\ r <= Len(Rest) /\ r \in Nat /\ Len(Rest) \in Nat
        /\ Len(line) <= r
        /\ \A j \in 1..r : Rest'[j] = Rest[j]
    <3>1. line \o unread \in Seq(Bytes) /\ pipe \in Seq(Bytes)
      BY RestType DEF SentInv, Inv
    <3>2. Rest' = line \o unread
      BY <1>1, <2>2, <3>1, ConcatEmptySeq DEF Rest
    <3>3. \A j \in 1..Len(line \o unread) : Rest[j] = (line \o unread)[j]
      BY <3>1, PartBytes DEF Rest
    <3> QED
      BY <3>2, <3>3, RestType DEF SentInv
  <2>4. PICK newMsg, newPos : newMsg = [j \in 1..r + 1 |-> msg[j]]
                              /\ newPos = [j \in 1..r + 1 |-> pos[j]]
    OBVIOUS
  <2> HIDE DEF r
  <2>5. \A j \in 1..r + 1 : /\ newMsg[j] = msg[j] /\ newPos[j] = pos[j]
                            /\ newMsg[j] \in Nat /\ newPos[j] \in Nat
    <3>1. \A j \in 1..r + 1 : j \in 1..Len(Rest) + 1
      BY <2>3
    <3> QED
      BY <2>1, <2>4, <3>1 DEF Labels
  <2>6. newMsg \in [1..Len(Rest') + 1 -> Nat] /\ newPos \in [1..Len(Rest') + 1 -> Nat]
    BY <2>3, <2>4, <2>5
  <2>7. \A j \in 1..r :
          /\ newMsg[j] \in 1..Len(sent)
          /\ newPos[j] \in 1..Len(LineOf(newMsg[j]))
          /\ Rest'[j] = LineOf(newMsg[j])[newPos[j]]
          /\ Rest'[j] = Newline => newMsg[j + 1] = newMsg[j] + 1 /\ newPos[j + 1] = 1
          /\ Rest'[j] # Newline =>
               newMsg[j + 1] = newMsg[j] /\ newPos[j + 1] = newPos[j] + 1
    <3> TAKE j \in 1..r
    <3>1. j \in 1..r + 1 /\ j + 1 \in 1..r + 1 /\ j \in 1..Len(Rest)
      BY <2>3
    <3>2. Rest'[j] = Rest[j] /\ newMsg[j] = msg[j] /\ newPos[j] = pos[j]
          /\ newMsg[j + 1] = msg[j + 1] /\ newPos[j + 1] = pos[j + 1]
      BY <2>3, <2>5, <3>1
    <3> QED
      BY <2>1, <3>1, <3>2 DEF Labels
  <2>8. \A j \in 1..Len(line) + 1 : newMsg[j] = Len(got) + 1 /\ newPos[j] = j
    <3>1. \A j \in 1..Len(line) + 1 : j \in 1..r + 1
      BY <2>3, RestType DEF SentInv
    <3> QED
      BY <2>1, <2>5, <3>1 DEF Labels
  <2>9. ~Linked'
    BY <2>2 DEF Linked
  <2>10. \A j : LineOf(j)' = LineOf(j)
    BY <1>1 DEF LineOf
  <2>11. Labels(newMsg, newPos)'
    BY <1>1, <2>3, <2>6, <2>7, <2>8, <2>9, <2>10 DEF Labels
  <2> QED
    BY <2>11 DEF Labelled
<1> QED
  BY <1>1, <1>2, <1>3, <1>4, <1>5, <1>6 DEF SentInv, ReaderCloses, Reset, receiver

LEMMA OtherSent ==
  ASSUME SentInv, NEW b \in Bytes, OtherWrites(b) PROVE SentInv'
<1>1. Inv' /\ program = "other" /\ program' = "other" /\ UNCHANGED <<got, reader>>
  BY OtherStep DEF SentInv, OtherWrites, receiver
<1> QED
  BY <1>1 DEF SentInv, HasEnded

\* One more call of receive returns.
LEMMA OneMore ==
  ASSUME got \in Seq(Outcomes), NEW o \in Outcomes, got' = Append(got, o),
         UNCHANGED <<sent, writing, conn, program>>, ReceivedAsSent,
         program = "Connection" /\ o.result # EOF_OR_ERROR =>
           /\ Len(got) + 1 <= Len(sent)
           /\ \/ o = [result |-> SUCCESS, msg |-> sent[Len(got) + 1]]
              \/ /\ Len(got) + 1 = Len(sent)
                 /\ Cut
                 /\ o = Received(WrittenOf(sent[Len(got) + 1]))
  PROVE  got' \in Seq(Outcomes) /\ ReceivedAsSent'
<1>1. /\ got' \in Seq(Outcomes) /\ Len(got') = Len(got) + 1 /\ Len(got) \in Nat
      /\ \A i \in 1..Len(got) : got'[i] = got[i]
      /\ got'[Len(got) + 1] = o
  BY AppendProperties, LenProperties
<1>2. DOMAIN got = 1..Len(got) /\ DOMAIN got' = 1..Len(got')
  BY <1>1, LenProperties
<1>3. (Cut' <=> Cut) /\ \A m : WrittenOf(m)' = WrittenOf(m)
  BY DEF Cut, WrittenOf
<1>4. ASSUME program = "Connection", NEW i \in DOMAIN got', got'[i].result # EOF_OR_ERROR
      PROVE  /\ i <= Len(sent)
             /\ \/ got'[i] = [result |-> SUCCESS, msg |-> sent[i]]
                \/ i = Len(sent) /\ Cut /\ got'[i] = Received(WrittenOf(sent[i]))
  <2>1. CASE i \in DOMAIN got
    BY <1>1, <1>2, <1>4, <2>1 DEF ReceivedAsSent
  <2>2. CASE i = Len(got) + 1
    BY <1>1, <1>4, <2>2
  <2> QED
    BY <1>1, <1>2, <2>1, <2>2
<1> QED
  BY <1>1, <1>3, <1>4 DEF ReceivedAsSent

\* What receive has read so far is the beginning of the next message.
LEMMA LineSoFar ==
  ASSUME SentInv, NEW msg, NEW pos, Labels(msg, pos), NEW n \in 1..Len(Rest),
         n <= Len(line) + 1
  PROVE  /\ Len(got) + 1 \in 1..Len(sent)
         /\ sent[Len(got) + 1] \in Msgs
         /\ n <= Len(LineOf(Len(got) + 1))
         /\ \A j \in 1..n : Rest[j] = LineOf(Len(got) + 1)[j]
<1>1. Len(Rest) \in Nat /\ Len(line) \in Nat
  BY RestType DEF SentInv
<1>2. \A j \in 1..n : j \in 1..Len(Rest) /\ j \in 1..Len(line) + 1
  BY <1>1
<1>3. \A j \in 1..n : /\ msg[j] = Len(got) + 1 /\ pos[j] = j
                      /\ msg[j] \in 1..Len(sent)
                      /\ pos[j] \in 1..Len(LineOf(msg[j]))
                      /\ Rest[j] = LineOf(msg[j])[pos[j]]
  BY <1>2 DEF Labels
<1>4. n \in 1..n
  OBVIOUS
<1>5. sent \in Seq(Msgs)
  BY DEF SentInv, Inv, TypeOK
<1>6. Len(got) + 1 \in 1..Len(sent) /\ n <= Len(LineOf(Len(got) + 1))
  BY <1>3, <1>4
<1> QED
  BY <1>3, <1>5, <1>6, ElementOfSeq

LEMMA EndSent ==
  ASSUME SentInv, ReadsEnd \/ ReadFails PROVE SentInv'
<1>1. /\ Inv' /\ UNCHANGED <<program, sent, writing, conn, pipe, unread>>
      /\ line \in Seq(Bytes) /\ unread = <<>> /\ pipe = <<>>
      /\ reader = "receive" /\ reader' = "idle" /\ line' = <<>>
      /\ got \in Seq(Outcomes) /\ Len(got) \in Nat
  BY EndStep, LenProperties
     DEF SentInv, Inv, PipeInv, ReadsEnd, ReadFails, Returns, writer
<1>2. Rest = line /\ Rest' = <<>> /\ Len(Rest') = 0 /\ Len(line') = 0
  BY <1>1, ConcatEmptySeq, EmptySeq DEF Rest
<1>3. WritingInv => WritingInv'
  BY <1>1 DEF WritingInv, LineOf
<1>4. program = "Connection" => ReceivedAsSent
  BY DEF SentInv
<1>5. ReceivedAsSent
  BY <1>4 DEF ReceivedAsSent
<1>6. CASE got' = Append(got, Failure(EOF_OR_ERROR))
  <2>1. Failure(EOF_OR_ERROR) \in Outcomes /\ Failure(EOF_OR_ERROR).result = EOF_OR_ERROR
    BY DEF Outcomes, Failure
  <2>2. got' \in Seq(Outcomes) /\ ReceivedAsSent'
    BY <1>1, <1>5, <1>6, <2>1, OneMore
  <2>3. /\ got' # <<>> /\ Len(got') = Len(got) + 1
        /\ got'[Len(got) + 1] = Failure(EOF_OR_ERROR)
    BY <1>1, <1>6, <2>1, AppendProperties
  <2>4. HasEnded'
    BY <2>1, <2>3 DEF HasEnded
  <2> QED
    BY <1>1, <1>3, <2>2, <2>4 DEF SentInv
<1>7. CASE got' # Append(got, Failure(EOF_OR_ERROR))
  <2>1. line # <<>> /\ conn = "shut" /\ got' = Append(got, Received(line))
    BY <1>7 DEF ReadsEnd, ReadFails, Returns
  <2>2. Received(line) \in Outcomes
    BY <1>1 DEF Outcomes
  <2>3. ASSUME program = "Connection"
        PROVE  /\ Len(got) + 1 = Len(sent) /\ Cut
               /\ line = WrittenOf(sent[Len(got) + 1])
    <3>1. PICK msg, pos : Labels(msg, pos)
      BY <1>1, <2>3 DEF SentInv, Labelled
    <3> DEFINE E == LineOf(Len(got) + 1)
               n == Len(line)
               w == Len(writing)
    <3>2. n \in Nat /\ n > 0 /\ n \in 1..Len(Rest) /\ Len(Rest) = n
      BY <1>1, <1>2, <2>1, LenProperties, EmptySeq
    <3>3. /\ Len(got) + 1 \in 1..Len(sent) /\ sent[Len(got) + 1] \in Msgs
          /\ n <= Len(E) /\ \A j \in 1..n : line[j] = E[j]
      BY <1>2, <3>1, <3>2, LineSoFar
    <3>4. E \in Seq(Bytes) /\ Len(E) \in Nat
      BY <3>3, EncodedType, EncodedBytes DEF LineOf
    <3>5. w \in Nat /\ writing \in Seq(Bytes)
      BY LenProperties DEF SentInv, Inv
    <3>6. Linked
      BY <1>2, <2>1 DEF Linked
    <3>7. msg[n + 1] = Len(got) + 1 /\ pos[n + 1] = n + 1
          /\ msg[n + 1] = NextMsg /\ pos[n + 1] = NextPos
      BY <3>1, <3>2, <3>6 DEF Labels
    <3>8. writing # <<>>
      BY <3>2, <3>7 DEF NextPos
    <3>9. Len(got) + 1 = Len(sent) /\ n + 1 = Len(E) - w + 1
      BY <3>7, <3>8 DEF NextMsg, NextPos
    <3>10. Cut
      BY <2>1, <3>8 DEF Cut
    <3> HIDE DEF n, w, E
    <3>11. n = Len(E) - w /\ n \in 0..Len(E) /\ n \in Int
      BY <3>2, <3>3, <3>4, <3>5, <3>9
    <3>12. FirstOf(E, n) \in Seq(Bytes) /\ Len(FirstOf(E, n)) = n
      BY <3>4, <3>11, Split
    <3>13. \A j \in 1..n : FirstOf(E, n)[j] = E[j]
      BY <3>4, <3>11, SubSeqProperties, ElementOfSeq DEF FirstOf
    <3>14. FirstOf(E, n) = line
      <4>1. \A j \in 1..n : FirstOf(E, n)[j] = line[j]
        BY <3>3, <3>13
      <4> QED
        BY <1>1, <3>12, <4>1, SeqEqual DEF n
    <3>15. WrittenOf(sent[Len(got) + 1]) = FirstOf(E, n)
      BY <3>11 DEF WrittenOf, E, LineOf, w
    <3> QED
      BY <3>9, <3>10, <3>14, <3>15
  <2>4. got' \in Seq(Outcomes) /\ ReceivedAsSent'
    <3>1. program = "Connection" =>
            /\ Len(got) + 1 <= Len(sent)
            /\ Len(got) + 1 = Len(sent) /\ Cut
            /\ Received(line) = Received(WrittenOf(sent[Len(got) + 1]))
      BY <1>1, <2>3
    <3> QED
      BY <1>1, <1>5, <2>1, <2>2, <3>1, OneMore
  <2>5. Labelled'
    <3>1. PICK newMsg, newPos : /\ newMsg = [j \in 1..1 |-> Len(got') + 1]
                                /\ newPos = [j \in 1..1 |-> 1]
      OBVIOUS
    <3>2. Len(got') \in Nat
      BY <2>4, LenProperties
    <3>3. ~Linked'
      BY <1>1, <1>2, <2>1 DEF Linked
    <3>4. Labels(newMsg, newPos)'
      BY <1>2, <3>1, <3>2, <3>3 DEF Labels
    <3> QED
      BY <3>4 DEF Labelled
  <2> QED
    BY <1>1, <1>3, <2>4, <2>5 DEF SentInv
<1> QED
  BY <1>6, <1>7

\* Taking a byte takes it, or the line it ends, from the bytes on their way.
LEMMA TakenBytes ==
  ASSUME Inv, TakeByte
  PROVE  LET taken == Append(line, Head(unread)) IN
         /\ taken \in Seq(Bytes) /\ Len(taken) = Len(line) + 1
         /\ Len(taken) <= Len(Rest) /\ Len(Rest) \in Nat /\ Len(line) \in Nat
         /\ \A j \in 1..Len(taken) : Rest[j] = taken[j]
         /\ ~IsComplete(taken) => Rest' = Rest
         /\ IsComplete(taken) =>
              /\ Len(Rest') = Len(Rest) - Len(taken)
              /\ \A j \in 1..(Len(Rest) - Len(taken)) : Rest'[j] = Rest[Len(taken) + j]
<1> DEFINE taken == Append(line, Head(unread))
           left == Tail(unread)
<1>1. /\ line \in Seq(Bytes) /\ unread \in Seq(Bytes) /\ pipe \in Seq(Bytes)
      /\ unread # <<>> /\ unread' = left /\ pipe' = pipe
  BY DEF Inv, TakeByte
<1>2. /\ taken \in Seq(Bytes) /\ left \in Seq(Bytes)
      /\ line \o unread \o pipe = taken \o left \o pipe
  BY <1>1, Take
<1>3. Len(taken) = Len(line) + 1 /\ Len(line) \in Nat
  BY <1>1, HeadTailProperties, AppendProperties, LenProperties
<1>4. ~IsComplete(taken) => line' = taken
  BY DEF TakeByte
<1>5. IsComplete(taken) => line' = <<>>
  BY DEF TakeByte, Returns
<1> HIDE DEF taken, left
<1>6. left \o pipe \in Seq(Bytes) /\ Len(left \o pipe) \in Nat /\ <<>> \o left = left
  BY <1>1, <1>2, ConcatProperties, ConcatEmptySeq, LenProperties
<1>7. taken \o left \o pipe = taken \o (left \o pipe)
  <2>1. taken \in Seq(Bytes) /\ left \in Seq(Bytes) /\ pipe \in Seq(Bytes)
    BY <1>1, <1>2
  <2> QED
    BY <2>1, ConcatAssociative
<1>8. /\ Len(taken \o (left \o pipe)) = Len(taken) + Len(left \o pipe)
      /\ \A j \in 1..Len(taken) : (taken \o (left \o pipe))[j] = taken[j]
      /\ \A j \in 1..Len(left \o pipe) :
           (taken \o (left \o pipe))[Len(taken) + j] = (left \o pipe)[j]
  BY <1>2, <1>6, PartBytes
<1>9. Rest = taken \o (left \o pipe)
  BY <1>2, <1>7 DEF Rest
<1>10. ~IsComplete(taken) => Rest' = Rest
  BY <1>1, <1>2, <1>4 DEF Rest
<1>11. IsComplete(taken) => Rest' = left \o pipe
  BY <1>1, <1>5, <1>6 DEF Rest
<1> DEFINE r == Len(left \o pipe)
<1>12. Len(Rest) = Len(taken) + r /\ r \in Nat
  BY <1>6, <1>8, <1>9
<1>13. /\ \A j \in 1..Len(taken) : Rest[j] = taken[j]
       /\ \A j \in 1..r : Rest[Len(taken) + j] = (left \o pipe)[j]
  BY <1>8, <1>9
<1> HIDE DEF r
<1>14. /\ Len(taken) <= Len(Rest) /\ Len(Rest) \in Nat /\ Len(Rest) - Len(taken) = r
  BY <1>3, <1>12
<1> QED
  BY <1>2, <1>3, <1>10, <1>11, <1>13, <1>14 DEF taken, r

LEMMA TakeSent ==
  ASSUME SentInv, TakeByte PROVE SentInv'
<1> DEFINE taken == Append(line, Head(unread))
           n == Len(taken)
<1>1. /\ Inv' /\ UNCHANGED <<program, sent, writing, conn>>
      /\ reader = "receive" /\ got \in Seq(Outcomes) /\ Len(got) \in Nat
  BY TakeStep, LenProperties DEF SentInv, TakeByte, writer
<1>2. /\ taken \in Seq(Bytes) /\ n = Len(line) + 1
      /\ n <= Len(Rest) /\ Len(Rest) \in Nat /\ Len(line) \in Nat
      /\ \A j \in 1..n : Rest[j] = taken[j]
      /\ ~IsComplete(taken) => Rest' = Rest
      /\ IsComplete(taken) =>
           /\ Len(Rest') = Len(Rest) - n
           /\ \A j \in 1..(Len(Rest) - n) : Rest'[j] = Rest[n + j]
  BY TakenBytes DEF SentInv
<1>3. WritingInv => WritingInv'
  BY <1>1 DEF WritingInv, LineOf
<1>4. ReceivedAsSent
  <2>1. program = "Connection" => ReceivedAsSent
    BY DEF SentInv
  <2> QED
    BY <2>1 DEF ReceivedAsSent
<1>5. program = "Connection" => Labelled
  BY <1>1 DEF SentInv
<1>6. /\ ~IsComplete(taken) => line' = taken /\ UNCHANGED <<reader, got>>
      /\ IsComplete(taken) => /\ reader' = "idle" /\ line' = <<>>
                              /\ got' = Append(got, Received(taken))
  BY DEF TakeByte, Returns
<1> HIDE DEF taken
<1>7. n \in 1..Len(Rest) /\ n <= Len(line) + 1 /\ n \in Nat /\ n > 0
  BY <1>2
\* What the labels say of the line.
<1>8. ASSUME NEW msg, NEW pos, Labels(msg, pos)
      PROVE  /\ Len(got) + 1 \in 1..Len(sent)
             /\ sent[Len(got) + 1] \in Msgs
             /\ n <= Len(LineOf(Len(got) + 1))
             /\ \A j \in 1..n : taken[j] = LineOf(Len(got) + 1)[j]
             /\ taken[n] = Newline <=> n = Len(LineOf(Len(got) + 1))
             /\ msg[n] = Len(got) + 1 /\ pos[n] = n
             /\ taken[n] = Newline => msg[n + 1] = Len(got) + 2 /\ pos[n + 1] = 1
             /\ taken[n] # Newline => msg[n + 1] = Len(got) + 1 /\ pos[n + 1] = n + 1
  <2>1. /\ Len(got) + 1 \in 1..Len(sent)
        /\ sent[Len(got) + 1] \in Msgs
        /\ n <= Len(LineOf(Len(got) + 1))
        /\ \A j \in 1..n : Rest[j] = LineOf(Len(got) + 1)[j]
    BY <1>7, <1>8, LineSoFar
  <2>2. \A j \in 1..n : taken[j] = LineOf(Len(got) + 1)[j]
    BY <1>2, <2>1
  <2>3. n \in 1..n /\ n \in 1..Len(line) + 1
    BY <1>2, <1>7
  <2>4. Len(LineOf(Len(got) + 1)) \in Nat
    BY <2>1, EncodedBytes DEF LineOf
  <2>5. n \in 1..Len(LineOf(Len(got) + 1))
    BY <1>7, <2>1, <2>4
  <2>6. taken[n] = Newline <=> n = Len(LineOf(Len(got) + 1))
    BY <2>1, <2>2, <2>3, <2>5, NewlineLast DEF LineOf
  <2>7. msg[n] = Len(got) + 1 /\ pos[n] = n
    BY <1>8, <2>3 DEF Labels
  <2>8. /\ Rest[n] = Newline => msg[n + 1] = msg[n] + 1 /\ pos[n + 1] = 1
        /\ Rest[n] # Newline => msg[n + 1] = msg[n] /\ pos[n + 1] = pos[n] + 1
    BY <1>7, <1>8 DEF Labels
  <2>9. Rest[n] = taken[n]
    BY <1>2, <2>3
  <2> QED
    BY <1>1, <2>1, <2>2, <2>6, <2>7, <2>8, <2>9
<1>9. CASE ~IsComplete(taken)
  <2>1. line' = taken /\ UNCHANGED <<reader, got>> /\ Rest' = Rest
    BY <1>2, <1>6, <1>9
  <2>2. HasEnded' <=> HasEnded
    BY <2>1 DEF HasEnded
  <2>3. ReceivedAsSent'
    BY <1>1, <1>4, <2>1, SameReceipts DEF Cut
  <2>4. ASSUME program = "Connection" PROVE Labelled'
    <3>1. PICK msg, pos : Labels(msg, pos)
      BY <1>5, <2>4 DEF Labelled
    <3>2. taken[n] # Newline
      BY <1>9 DEF IsComplete
    <3>3. msg[n + 1] = Len(got) + 1 /\ pos[n + 1] = n + 1
      BY <1>8, <3>1, <3>2
    <3>4. \A j \in 1..Len(line') + 1 : msg[j] = Len(got) + 1 /\ pos[j] = j
      <4>1. \A j \in 1..Len(line') + 1 : j \in 1..Len(line) + 1 \/ j = n + 1
        BY <1>2, <2>1
      <4> QED
        BY <3>1, <3>3, <4>1 DEF Labels
    <3>5. Linked' <=> Linked
      BY <1>1, <2>1 DEF Linked
    <3>6. NextMsg' = NextMsg /\ NextPos' = NextPos /\ \A j : LineOf(j)' = LineOf(j)
      BY <1>1 DEF NextMsg, NextPos, LineOf
    <3>7. Labels(msg, pos)'
      BY <1>1, <2>1, <3>1, <3>4, <3>5, <3>6 DEF Labels
    <3> QED
      BY <3>7 DEF Labelled
  <2> QED
    BY <1>1, <1>3, <2>1, <2>2, <2>3, <2>4 DEF SentInv
<1>10. CASE IsComplete(taken)
  <2>1. /\ reader' = "idle" /\ line' = <<>> /\ Len(line') = 0
        /\ got' = Append(got, Received(taken))
        /\ Len(Rest') = Len(Rest) - n
        /\ \A j \in 1..(Len(Rest) - n) : Rest'[j] = Rest[n + j]
    BY <1>2, <1>6, <1>10, EmptySeq
  <2>2. Received(taken) \in Outcomes
    BY <1>2 DEF Outcomes
  <2>3. ASSUME program = "Connection", NEW msg, NEW pos, Labels(msg, pos)
        PROVE  /\ taken[n] = Newline
               /\ Len(got) + 1 <= Len(sent)
               /\ Received(taken) = [result |-> SUCCESS, msg |-> sent[Len(got) + 1]]
    <3> DEFINE E == LineOf(Len(got) + 1)
    <3>1. /\ Len(got) + 1 \in 1..Len(sent) /\ sent[Len(got) + 1] \in Msgs
          /\ n <= Len(E) /\ (taken[n] = Newline <=> n = Len(E))
          /\ \A j \in 1..n : taken[j] = E[j]
      BY <1>8, <2>3
    <3>2. Fits(sent[Len(got) + 1])
      BY <2>3, <3>1 DEF SentInv, WritingInv
    <3>3. Len(E) <= MAX_LEN /\ Len(E) \in Nat /\ E \in Seq(Bytes)
      BY <3>1, <3>2, EncodedBytes, EncodedType DEF Fits, LineOf
    <3>4. taken[n] = Newline \/ n = MAX_LEN
      BY <1>10 DEF IsComplete
    <3> HIDE DEF E
    <3>5. n = Len(E)
      BY <1>7, <3>1, <3>3, <3>4, MaxLenAssumption
    <3>6. taken = E
      BY <1>2, <3>1, <3>3, <3>5, SeqEqual
    <3>7. Received(E) = [result |-> SUCCESS, msg |-> sent[Len(got) + 1]]
      BY <3>1, <3>2, ReceivedEncoded DEF E, LineOf
    <3> QED
      BY <3>1, <3>5, <3>6, <3>7
  <2>4. got' \in Seq(Outcomes) /\ ReceivedAsSent'
    <3>1. program = "Connection" =>
            /\ Len(got) + 1 <= Len(sent)
            /\ Received(taken) = [result |-> SUCCESS, msg |-> sent[Len(got) + 1]]
      BY <1>5, <2>3 DEF Labelled
    <3> QED
      BY <1>1, <1>4, <2>1, <2>2, <3>1, OneMore
  <2>5. ASSUME program = "Connection" PROVE Labelled'
    <3>1. PICK msg, pos : Labels(msg, pos)
      BY <1>5, <2>5 DEF Labelled
    <3> DEFINE r == Len(Rest) - n
    <3>2. PICK newMsg, newPos : /\ newMsg = [j \in 1..r + 1 |-> msg[n + j]]
                                /\ newPos = [j \in 1..r + 1 |-> pos[n + j]]
      OBVIOUS
    <3>3. /\ r \in Nat /\ n + r = Len(Rest) /\ Len(Rest') = r
          /\ \A j \in 1..r + 1 : n + j \in 1..Len(Rest) + 1
          /\ \A j \in 1..r : n + j \in 1..Len(Rest) /\ Rest'[j] = Rest[n + j]
      BY <1>2, <1>7, <2>1
    <3> HIDE DEF r
    <3>4. \A j \in 1..r + 1 : /\ newMsg[j] = msg[n + j] /\ newPos[j] = pos[n + j]
                              /\ newMsg[j] \in Nat /\ newPos[j] \in Nat
      BY <3>1, <3>2, <3>3 DEF Labels
    <3>5. newMsg \in [1..Len(Rest') + 1 -> Nat] /\ newPos \in [1..Len(Rest') + 1 -> Nat]
      BY <3>2, <3>3, <3>4
    <3>6. \A j \in 1..r :
            /\ newMsg[j] \in 1..Len(sent)
            /\ newPos[j] \in 1..Len(LineOf(newMsg[j]))
            /\ Rest'[j] = LineOf(newMsg[j])[newPos[j]]
            /\ Rest'[j] = Newline => newMsg[j + 1] = newMsg[j] + 1 /\ newPos[j + 1] = 1
            /\ Rest'[j] # Newline =>
                 newMsg[j + 1] = newMsg[j] /\ newPos[j + 1] = newPos[j] + 1
      <4> TAKE j \in 1..r
      <4>1. j \in 1..r + 1 /\ j + 1 \in 1..r + 1 /\ n + (j + 1) = (n + j) + 1
        BY <1>7, <3>3
      <4>2. PICK k : k = n + j
        OBVIOUS
      <4>3. /\ Rest'[j] = Rest[k] /\ newMsg[j] = msg[k] /\ newPos[j] = pos[k]
            /\ newMsg[j + 1] = msg[k + 1] /\ newPos[j + 1] = pos[k + 1]
            /\ k \in 1..Len(Rest)
        BY <3>3, <3>4, <4>1, <4>2
      <4> QED
        BY <3>1, <4>3 DEF Labels
    <3>7. newMsg[1] = Len(got') + 1 /\ newPos[1] = 1
      <4>1. Len(got') = Len(got) + 1
        BY <1>1, <2>1, <2>2, AppendProperties
      <4>2. taken[n] = Newline
        BY <2>3, <2>5, <3>1
      <4>3. msg[n + 1] = Len(got) + 2 /\ pos[n + 1] = 1
        BY <1>8, <3>1, <4>2
      <4>4. 1 \in 1..r + 1
        BY <3>3
      <4>5. newMsg[1] = msg[n + 1] /\ newPos[1] = pos[n + 1]
        BY <3>4, <4>4
      <4>6. Len(got) + 2 = (Len(got) + 1) + 1
        BY <1>1
      <4> QED
        BY <4>1, <4>3, <4>5, <4>6
    <3>8. \A j \in 1..Len(line') + 1 : newMsg[j] = Len(got') + 1 /\ newPos[j] = j
      BY <2>1, <3>7
    <3>9. Linked' => newMsg[r + 1] = NextMsg' /\ newPos[r + 1] = NextPos'
      <4>1. Rest # <<>>
        BY <1>7, EmptySeq
      <4>2. Linked' => Linked
        BY <1>1, <4>1 DEF Linked
      <4>3. r + 1 \in 1..r + 1 /\ n + (r + 1) = Len(Rest) + 1
        BY <1>7, <3>3
      <4>4. NextMsg' = NextMsg /\ NextPos' = NextPos
        BY <1>1 DEF NextMsg, NextPos, LineOf
      <4>5. Linked => msg[Len(Rest) + 1] = NextMsg /\ pos[Len(Rest) + 1] = NextPos
        BY <3>1 DEF Labels
      <4> QED
        BY <3>4, <4>2, <4>3, <4>4, <4>5
    <3>10. \A j : LineOf(j)' = LineOf(j)
      BY <1>1 DEF LineOf
    <3>11. Labels(newMsg, newPos)'
      BY <1>1, <3>3, <3>5, <3>6, <3>8, <3>9, <3>10 DEF Labels
    <3> QED
      BY <3>11 DEF Labelled
  <2> QED
    BY <1>1, <1>3, <2>1, <2>4, <2>5 DEF SentInv
<1> QED
  BY <1>9, <1>10

LEMMA SentStep == SentInv /\ [Next]_vars => SentInv'
<1> SUFFICES ASSUME SentInv, [Next]_vars PROVE SentInv'
  OBVIOUS
<1>1. CASE UNCHANGED vars
  <2>1. Inv' /\ UNCHANGED <<Rest, line, sent, writing, got, program>>
        /\ (Linked' => Linked) /\ (Cut => Cut') /\ (reader' = "receive" => ~HasEnded)
        /\ (reader = "closed" => reader' = "closed") /\ (conn' = "none" => conn = "none")
    BY <1>1, StepInv DEF vars, writer, receiver, Rest, Linked, Cut, SentInv
  <2> QED
    BY <2>1, SameSent
<1> QED
  BY <1>1, QuietSent, StartSent, WriteSent, OtherSent, LossSent, TakeSent, EndSent
     DEF Next, ReaderRuns

\* Between two Connections, messages are received as they were sent, in their
\* order, whatever the pieces they are written and read in: but for a last one
\* that the end of its writer cut off.
THEOREM SendsArrive == Spec => []ReceivedAsSent
<1>1. SentInv => ReceivedAsSent
  BY DEF SentInv, ReceivedAsSent
<1> QED
  BY <1>1, SentInit, SentStep, PTL DEF Spec
===============================================================================
