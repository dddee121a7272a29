---------------------------- MODULE MessageFormat ----------------------------
(***************************************************************************)
(* Messages of the chat protocol and the lines that carry them             *)
(* (csf_assign05: message.h, Connection::send, Connection::receive).       *)
(* A byte is one of the four that the code looks at or any other; a text   *)
(* is a sequence of bytes.                                                 *)
(***************************************************************************)
EXTENDS Naturals, Sequences

CONSTANT MAX_LEN  \* 255: the longest line, its newline included

ASSUME MaxLenAssumption == MAX_LEN \in Nat \ {0}

Colon == ":"
Newline == "\n"
Return == "\r"
Nul == "0"

SUCCESS == "SUCCESS"
EOF_OR_ERROR == "EOF_OR_ERROR"
INVALID_MSG == "INVALID_MSG"

\* What Connection::send writes for a message.
Encoded(m) == m.tag \o <<Colon>> \o m.data \o <<Newline>>

\* Bug: the newline is not counted.
FitsWithoutNewline(m) == Len(m.tag) + 1 + Len(m.data) <= MAX_LEN
Fits(m) == Len(Encoded(m)) <= MAX_LEN

Contains(s, c) == \E i \in DOMAIN s : s[i] = c
First(s, c) == CHOOSE i \in DOMAIN s : s[i] = c /\ \A j \in 1..(i - 1) : s[j] # c
Before(s, c) == SubSeq(s, 1, First(s, c) - 1)
After(s, c) == SubSeq(s, First(s, c) + 1, Len(s))

\* std::string line(buf): the line up to its first NUL.
CString(line) == IF Contains(line, Nul) THEN Before(line, Nul) ELSE line

\* Without newlines and carriage returns at its end.
Trimmed(s) ==
  LET kept == {i \in DOMAIN s : s[i] \notin {Newline, Return}}
  IN  SubSeq(s, 1, IF kept = {} THEN 0 ELSE CHOOSE i \in kept : \A j \in kept : j <= i)

NoMessage == [tag |-> <<>>, data |-> <<>>]
Failure(result) == [result |-> result, msg |-> NoMessage]

\* Bug: the data begin at the last colon.
ReceivedAtLastColon(line) ==
  LET text == Trimmed(CString(line))
      colons == {i \in DOMAIN text : text[i] = Colon}
      last == CHOOSE i \in colons : \A j \in colons : j <= i
  IN  IF colons = {} THEN Failure(INVALID_MSG)
      ELSE [result |-> SUCCESS,
            msg |-> [tag |-> SubSeq(text, 1, last - 1),
                     data |-> SubSeq(text, last + 1, Len(text))]]

\* What Connection::receive makes of a line it has read: the first colon is
\* the end of the tag.
Received(line) ==
  LET text == Trimmed(CString(line)) IN
  IF text = <<>> \/ Len(line) > MAX_LEN \/ ~Contains(text, Colon)
  THEN Failure(INVALID_MSG)
  ELSE [result |-> SUCCESS,
        msg |-> [tag |-> Before(text, Colon), data |-> After(text, Colon)]]

\* Messages whose line says what they say: no tag or text of the protocol has
\* any of these bytes in these places (names are letters and digits, texts are
\* lines that were trimmed).
Plain(m) ==
  /\ \A c \in {Colon, Newline, Return, Nul} : ~Contains(m.tag, c)
  /\ \A c \in {Newline, Nul} : ~Contains(m.data, c)
  /\ m.data = <<>> \/ m.data[Len(m.data)] # Return
===============================================================================
