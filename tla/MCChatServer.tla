----------------------------- MODULE MCChatServer -----------------------------
(* Small instances of the chat server.                                       *)
EXTENDS ChatProperties, TLC

CONSTANTS w1, w2, w3

TwoWorkers == {w1, w2}
ThreeWorkers == {w1, w2, w3}

\* Connections are interchangeable: a worker appears in messages and names of
\* Room objects only as itself.
WorkerSymmetry == Permutations(ThreeWorkers)

\* A busy room, some steps after Init: w1 created lobby and receives in it,
\* w2 and w3 logged in as senders and joined it, their first two requests.
BusyInit ==
  LET lobby == <<CHOOSE n \in Names : TRUE, w1>> IN
  /\ pc = [w \in Workers |-> IF w = w1 THEN "dequeue" ELSE "s_chat"]
  /\ role = [w \in Workers |-> IF w = w1 THEN "receiver" ELSE "sender"]
  /\ gone = [w \in Workers |-> FALSE]
  /\ user = [w \in Workers |-> "live"]
  /\ name = [w \in Workers |-> lobby[1]]
  /\ room = [w \in Workers |-> lobby]
  /\ m_rooms = [n \in Names |-> lobby]
  /\ m_lock = Null
  /\ members = [o \in Rooms |-> IF o = lobby THEN {w1} ELSE {}]
  /\ lock = [o \in Rooms |-> Null]
  /\ queue = [w \in Workers |-> <<>>]
  /\ avail = [w \in Workers |-> 0]
  /\ hand = [w \in Workers |-> <<>>]
  /\ msg = [w \in Workers |-> Null]
  /\ visited = [w \in Workers |-> {}]
  /\ cur = [w \in Workers |-> Null]
  /\ requests = 2
  /\ log = [o \in Rooms |-> <<>>]
  /\ joined = [w \in Workers |-> 0]
  /\ wire = [w \in Workers |-> <<>>]

BusySpec == BusyInit /\ [][Next]_vars /\ Fairness
===============================================================================
