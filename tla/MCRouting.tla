----------------------------- MODULE MCRouting ------------------------------
(* Instances of Routing for TLC. *)
EXTENDS Routing, TLC

CONSTANTS a1, a2,   \* agents; a1 takes one conversation at a time
          boss,     \* a supervisor with scope "all"
          s1,       \* the sector both agents work in
          w1        \* the worker that runs batches, where one does

MCSectorOf == [q \in Queues |-> s1]
MCAgentSectors ==
    [x \in Agents \cup Actors |-> IF x \in Agents THEN {s1} ELSE {}]
MCMaxChats == [a \in Agents |-> IF a = a1 THEN 1 ELSE 0]
MCRank == [a \in Agents |-> IF a = a1 THEN 1 ELSE 2]

\* Requests that fill up the agents, and writers without the lock beside them.
FillingUp == [w \in Workers |-> {"assign", "auto", "assign_agent", "touch"}]

\* Manual assignments only.
AssignsOnly == [w \in Workers |-> {"assign"}]

\* One worker runs batches beside another that transfers, enqueues and edits.
BatchAndEdits ==
    [w \in Workers |-> IF w = w1 THEN {"batch"}
                       ELSE {"transfer", "enqueue", "patch", "resolve", "inbound",
                             "touch"}]

\* A PATCH that takes the conversation for an agent.
MCPatches ==
    {[sector |-> Keep, queue |-> Keep, agent |-> a, status |-> "assigned"] :
        a \in Agents}

\* Conversations, and workers that are asked for the same, are interchangeable.
Interchangeable == Permutations(Convs) \cup Permutations(Workers)
=============================================================================
