---------------------------- MODULE Conversation ----------------------------
(***************************************************************************)
(* The conversation document (domain/conversations/entity/conversation.go)  *)
(* and what each operation of the routing service writes into it.  Every    *)
(* operation of the program loads the document, changes the copy and stores *)
(* the whole copy back (conversation_repository.go, Update), so an operation*)
(* is a function from a document to a document.                             *)
(*                                                                          *)
(* Of the document the fields that decide routing, whether closed_at is set *)
(* and the unread counter are kept; `None' stands for the empty string.     *)
(***************************************************************************)
EXTENDS Naturals

CONSTANTS Agents,     \* user ids
          Sectors,    \* sector ids
          Queues,     \* queue ids
          SectorOf,   \* the sector a queue belongs to
          None

ASSUME EntityAssumption ==
    /\ SectorOf \in [Queues -> Sectors]
    /\ None \notin Agents \cup Sectors \cup Queues

ClosedStatuses == {"resolved", "closed", "archived"}

Statuses == {"new", "queued", "assigned", "waiting_customer",
             "waiting_agent", "transferred"} \cup ClosedStatuses

Document == [status : Statuses,
             sector : Sectors \cup {None},
             queue  : Queues \cup {None},
             agent  : Agents \cup {None},
             closedAt : BOOLEAN,
             unread : Nat]

IsClosed(d) == d.status \in ClosedStatuses

\* A conversation opened from the API without an assignee: new, or queued when
\* it names a queue (the sector is taken as given, not from the queue).
Opened(sector, queue) ==
    [status |-> IF queue # None THEN "queued" ELSE "new",
     sector |-> sector, queue |-> queue, agent |-> None,
     closedAt |-> FALSE, unread |-> 0]

\* A conversation opened from the API; with an assignee it starts assigned, and
\* nobody asks whether the agent works in the sector or has room.
Created(sector, queue, a) ==
    IF a # None
    THEN [Opened(sector, queue) EXCEPT !.status = "assigned", !.agent = a]
    ELSE Opened(sector, queue)

\* A conversation opened by an inbound message: queued, without sector or queue.
OpenedByInbound ==
    [Opened(None, None) EXCEPT !.status = "queued"]

\* applyAssignment
Assigned(d, a) ==
    [d EXCEPT !.agent = a, !.status = "assigned", !.queue = None]

\* Transfer: the target sector is optional; with a target agent the
\* conversation is assigned and leaves its queue, without one it is unassigned
\* and keeps its queue id.
Transferred(d, sector, a) ==
    LET moved == [d EXCEPT !.sector = IF sector # None THEN sector ELSE @]
    IN  IF a # None
        THEN Assigned(moved, a)
        ELSE [moved EXCEPT !.agent = None, !.status = "transferred"]

\* Enqueue: the sector is the queue's.
Enqueued(d, q) ==
    [d EXCEPT !.queue = q, !.sector = SectorOf[q], !.agent = None,
              !.status = "queued"]

\* Close, CloseInactive: the assignee, the sector and the queue are kept.
Closed(d) == [d EXCEPT !.status = "closed", !.closedAt = TRUE]

\* Reopen, by an agent or by an inbound message: back to the assignee, else to
\* the queue, else new.
Reopened(d) ==
    [d EXCEPT !.status = IF d.agent # None THEN "assigned"
                         ELSE IF d.queue # None THEN "queued" ELSE "new",
              !.closedAt = FALSE]
=============================================================================
