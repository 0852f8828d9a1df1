----------------------------- MODULE MCSockets ------------------------------
(* An instance of Sockets for TLC. *)
EXTENDS Sockets, TLC

CONSTANTS c1, c2

\* Two events of the tenant's room, one of a conversation.
MCEvents == [n : 1..2, room : {"tenant"}] \cup [n : {3}, room : {"conversation"}]

TwoEvents == {e \in MCEvents : e.n > 1}

Workload(clients, max, events, presenceOn, settings, faults) ==
    [clients |-> clients, max |-> max, events |-> events, presence |-> presenceOn,
     settings |-> settings, faults |-> faults]

\* The hub with two sockets, and with room for one; the agent's presence with
\* two sockets, no limit and faults, and with changes of the settings; the hub
\* under the presence.
MCWorkloads ==
    {Workload(Clients, 2, TwoEvents, FALSE, 0, 2),
     Workload(Clients, 1, TwoEvents, FALSE, 0, 1),
     Workload(Clients, 0, {}, TRUE, 0, 1),
     Workload({c1}, 2, {}, TRUE, 1, 2),
     Workload({c1}, 2, TwoEvents, TRUE, 0, 1)}
=============================================================================
