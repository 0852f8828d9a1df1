----------------------------- MODULE MCInbound ------------------------------
(* Instances of Inbound for TLC. *)
EXTENDS Inbound, TLC

CONSTANTS m1, m2,   \* messages
          p1, g1,   \* a customer and a group
          k1, k2    \* connections; k2 is in protocol mode

NoSectorOf == [q \in Queues |-> None]

\* Who the messages are from: the customer, the group, or one from each.
FromCustomer == [m \in Messages |-> p1]
FromGroup == [m \in Messages |-> g1]
FromBoth == [m \in Messages |-> IF m = m1 THEN p1 ELSE g1]

\* A message arrives through any connection.
Anywhere == [m \in Messages |-> Conns]

\* Requests are interchangeable.
Interchangeable == Permutations(Workers)
=============================================================================
