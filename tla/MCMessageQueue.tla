---------------------------- MODULE MCMessageQueue ----------------------------
(* A small instance of MessageQueue: two broadcasting workers and two        *)
(* consumers.  The server has one consumer per queue; two of them exercise   *)
(* the accounting of the semaphore harder than the server does.              *)
EXTENDS MessageQueue

CONSTANTS p1, p2, c1, c2

TwoConsumers == {c1, c2}
Two == {p1, p2}
===============================================================================
