------------------------------- MODULE MCDesk -------------------------------
(* An instance of Desk for TLC. *)
EXTENDS Desk, TLC

CONSTANTS w1, w2

NoSectorOf == [q \in Queues |-> None]

\* The first response is due before the resolution.
MCDueAt == [first_response |-> 1, resolution |-> 2]
MCWarnAt == [first_response |-> 1, resolution |-> 1]

Load(ops, messages, clocks, failures) ==
    [ops |-> ops, maxMessages |-> messages, maxClock |-> clocks, maxFaults |-> failures]

\* The operations that meet on the messages, on one message, on the inbox row,
\* on the tracking and on the survey.
MCWorkloads ==
    {Load({"Note", "Inbound", "Edit", "Delete"}, 2, 0, 1),
     Load({"Note", "Inbound", "Delete"}, 2, 1, 0),
     Load({"Send", "Edit", "Delete", "Receipt"}, 1, 0, 1),
     Load({"Inbound", "MarkRead", "MarkUnread", "Tags", "Note"}, 2, 0, 1),
     Load({"CloseNoting", "Reopen", "Inbound"}, 2, 0, 1),
     Load({"Send", "Close", "Check"}, 1, 2, 0),
     Load({"Close", "Check"}, 0, 2, 1),
     Load({"Send", "Check"}, 1, 2, 1),
     Load({"Send", "Patch", "Check"}, 1, 2, 0),
     Load({"Close", "CloseInactive", "SendSurvey"}, 0, 1, 1),
     Load({"Close", "Reopen", "SendSurvey", "Expire", "Submit"}, 0, 0, 1)}

Interchangeable == Permutations(Workers)
=============================================================================
