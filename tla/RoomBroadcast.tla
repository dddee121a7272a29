---------------------------- MODULE RoomBroadcast ----------------------------
(***************************************************************************)
(* What the chat server of csf_assign05 promises to its clients, with no   *)
(* threads, locks or queues: every room is a log of messages; a receiver   *)
(* that joins a room is sent, in the order of the log and without gaps or  *)
(* repetitions, what is published from then on, until it is dropped.       *)
(***************************************************************************)
EXTENDS Naturals, Sequences

CONSTANTS Names,      \* names of rooms
          Receivers,  \* the clients that may receive
          Messages,
          Nowhere     \* where[r] when r is a member of no room: not a name

VARIABLES log,    \* what was published in each room
          where,  \* the room each receiver is a member of
          since,  \* the length of the log when it joined
          wire    \* what was written to its connection

vars == <<log, where, since, wire>>

Init ==
  /\ log = [n \in Names |-> <<>>]
  /\ where = [r \in Receivers |-> Nowhere]
  /\ since = [r \in Receivers |-> 0]
  /\ wire = [r \in Receivers |-> <<>>]

\* A connection joins once.
Join(r, n) ==
  /\ where[r] = Nowhere
  /\ wire[r] = <<>>
  /\ where' = [where EXCEPT ![r] = n]
  /\ since' = [since EXCEPT ![r] = Len(log[n])]
  /\ UNCHANGED <<log, wire>>

Publish(n, m) ==
  /\ log' = [log EXCEPT ![n] = Append(@, m)]
  /\ UNCHANGED <<where, since, wire>>

\* The index in the log of its room of the next message r is owed.
Position(r) == since[r] + Len(wire[r]) + 1

IsOwed(r) == where[r] # Nowhere /\ Position(r) <= Len(log[where[r]])

Deliver(r) ==
  /\ IsOwed(r)
  /\ wire' = [wire EXCEPT ![r] = Append(@, log[where[r]][Position(r)])]
  /\ UNCHANGED <<log, where, since>>

Leave(r) ==
  /\ where[r] # Nowhere
  /\ where' = [where EXCEPT ![r] = Nowhere]
  /\ UNCHANGED <<log, since, wire>>

Next == \/ \E r \in Receivers : \/ Deliver(r)
                                \/ Leave(r)
                                \/ \E n \in Names : Join(r, n)
        \/ \E n \in Names, m \in Messages : Publish(n, m)

Spec == Init /\ [][Next]_vars

\* A member that is owed a message gets it, or is dropped.
Fairness == \A r \in Receivers : WF_vars(IsOwed(r) /\ (Deliver(r) \/ Leave(r)))

FairSpec == Spec /\ Fairness
==============================================================================
