------------------------------ MODULE Admission ------------------------------
(***************************************************************************)
(* What the TCP proxy promises about the connections it lets through,      *)
(* without tasks, sockets or permits: connections wait in the order they   *)
(* arrived, at most Limit of them are served at a time, and one that is    *)
(* served leaves when it ends.  TcpProxy implements this specification.    *)
(***************************************************************************)
EXTENDS Naturals, Sequences, FiniteSets

CONSTANTS
  Conns,   \* the connections
  Limit    \* how many may be served at a time

VARIABLES
  queue,   \* connections that wait to be served, first come first
  active   \* connections that are being served

vars == <<queue, active>>

Waiting == {queue[i] : i \in DOMAIN queue}

Init == queue = <<>> /\ active = {}

Arrive(c) ==
  /\ c \notin Waiting \cup active
  /\ queue' = Append(queue, c)
  /\ UNCHANGED active

\* The oldest waiting connection, and no other, is let in when there is room.
Admit ==
  /\ queue # <<>>
  /\ Cardinality(active) < Limit
  /\ active' = active \cup {Head(queue)}
  /\ queue' = Tail(queue)

Leave(c) ==
  /\ c \in active
  /\ active' = active \ {c}
  /\ UNCHANGED queue

Next == Admit \/ \E c \in Conns : Arrive(c) \/ Leave(c)

Spec == Init /\ [][Next]_vars

\* With a fair listener the oldest waiting connection does not stay the oldest
\* while there is room: this is weak fairness of Admit, as a leads-to.
KeepsAdmitting ==
  \A c \in Conns :
    (queue # <<>> /\ Head(queue) = c /\ Cardinality(active) < Limit)
      ~> ~(queue # <<>> /\ Head(queue) = c)
=============================================================================
