-------------------------------- MODULE Csat --------------------------------
(***************************************************************************)
(* The CSAT response of a conversation (domain/csat/entity/response.go) and *)
(* what the tasks csat.send and csat.expire and the customer's answer make   *)
(* of a loaded copy of it (domain/csat/service/service.go).                  *)
(***************************************************************************)

Response == [status : {"sent", "responded", "expired"},
             sentAt : BOOLEAN,      \* SentAt is set
             score  : BOOLEAN]      \* Score is set

\* OnConversationClosed: the response is born `sent', before anything is sent.
NewResponse == [status |-> "sent", sentAt |-> FALSE, score |-> FALSE]

\* Send only goes on with a response that waits and was not sent.
Sendable(r) == r.status = "sent" /\ ~r.sentAt
Sent(r) == [r EXCEPT !.sentAt = TRUE]

Answerable(r) == r.status = "sent"
Answered(r) == [r EXCEPT !.score = TRUE, !.status = "responded"]

\* Mutation of Expirable: an answered response expires too.
ExpirableAnswered(r) == r.status # "expired"
Expirable(r) == r.status = "sent"
Expired(r) == [r EXCEPT !.status = "expired"]
=============================================================================
