----------------------------- MODULE MCConnection -----------------------------
(* Small instances of one direction of a connection.                         *)
EXTENDS Connection

\* The bytes that the code looks at, and one other.
AllBytes == {Colon, Newline, Return, Nul, "a"}

\* With MAX_LEN = 4 the second one just fits, the last one does not: it would
\* be read as two lines.
FewMsgs == [tag : {<<"a">>}, data : {<<>>, <<Colon>>, <<"a", Colon>>}]
===============================================================================
