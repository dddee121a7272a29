------------------------------ MODULE LineStream ------------------------------
(***************************************************************************)
(* What one direction of a connection of csf_assign05 is to the caller of  *)
(* Connection::receive: bytes on their way, of which each call takes one   *)
(* line, or as much of a line as the longest message has, or what is left  *)
(* at the end; or it learns that the stream has ended.  How the bytes are  *)
(* split by writes, reads and buffers makes no difference.                 *)
(***************************************************************************)
EXTENDS MessageFormat

VARIABLES rest,  \* the bytes that were written and not received yet
          conn,  \* "open", "shut" by its writer, or "broken"
          got    \* what the calls of receive returned

vars == <<rest, conn, got>>

Init == rest = <<>> /\ conn = "open" /\ got = <<>>

Prefix(s, n) == SubSeq(s, 1, n)
Suffix(s, n) == SubSeq(s, n + 1, Len(s))

\* Bytes are written.
Grow ==
  /\ conn = "open"
  /\ Len(rest) <= Len(rest')
  /\ rest = Prefix(rest', Len(rest))
  /\ UNCHANGED <<conn, got>>

\* The writer closed its end: what it wrote arrives.
Shut ==
  /\ conn = "open"
  /\ conn' = "shut"
  /\ UNCHANGED <<rest, got>>

\* The connection is lost, and perhaps some of the last bytes with it.
Break ==
  /\ conn' = "broken"
  /\ \E n \in 0..Len(rest) : rest' = Prefix(rest, n)
  /\ UNCHANGED got

\* A line that receive may take from what is there.
IsLine(line, left) ==
  /\ \A i \in 1..(Len(line) - 1) : line[i] # Newline
  /\ \/ line[Len(line)] = Newline
     \/ Len(line) = MAX_LEN
     \/ conn = "shut" /\ left = <<>>

Receive ==
  /\ \E n \in 1..MAX_LEN :
       /\ n <= Len(rest)
       /\ IsLine(Prefix(rest, n), Suffix(rest, n))
       /\ got' = Append(got, Received(Prefix(rest, n)))
       /\ rest' = Suffix(rest, n)
  /\ UNCHANGED conn

\* End of file, or an error that loses the beginning of a line.
End ==
  /\ \/ conn = "shut" /\ rest = <<>>
     \/ conn = "broken" /\ Len(rest) < MAX_LEN /\ ~Contains(rest, Newline)
  /\ got' = Append(got, Failure(EOF_OR_ERROR))
  /\ rest' = <<>>
  /\ UNCHANGED conn

Next == Grow \/ Shut \/ Break \/ Receive \/ End

Spec == Init /\ [][Next]_vars
===============================================================================
