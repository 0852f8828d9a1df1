-------------------------------- MODULE Sla ---------------------------------
(***************************************************************************)
(* The SLA tracking of a conversation (domain/sla/entity/tracking.go) and   *)
(* what the conversation's hooks and the sla.check job make of a loaded     *)
(* copy of it (domain/sla/service/sla_service.go).  Due and warning instants *)
(* are fixed when the tracking starts, so they are constants here; the       *)
(* timestamps it records are kept as "set or not".                           *)
(***************************************************************************)
EXTENDS Naturals

CONSTANTS DueAt,       \* the due instant of each leg
          WarnAt,      \* the warning instant of each leg
          Pauses       \* PauseOnWaitingCustomer

Legs == {"first_response", "resolution"}

ASSUME SlaAssumption ==
    /\ DueAt \in [Legs -> Nat]
    /\ WarnAt \in [Legs -> Nat]
    /\ Pauses \in BOOLEAN

Tracking == [responded : BOOLEAN,        \* FirstResponseAt is set
             resolved  : BOOLEAN,        \* ResolvedAt is set
             warned    : SUBSET Legs,
             breached  : SUBSET Legs,
             status    : {"running", "met", "breached"}]

\* OnConversationCreated, when a policy matches.
Started == [responded |-> FALSE, resolved |-> FALSE,
            warned |-> {}, breached |-> {}, status |-> "running"]

\* OnFirstResponse: late only after the due instant.
FirstResponse(t, at) ==
    [t EXCEPT !.responded = TRUE,
              !.breached = @ \cup {l \in {"first_response"} : at > DueAt[l]}]

\* OnResolved: a conversation resolved after its first response was due, and
\* never answered, breaches that leg too; Finalize takes the verdict.
Late(t, at) == {l \in Legs : at > DueAt[l] /\ (l = "first_response" => ~t.responded)}

\* Mutation of Resolution: the verdict is taken from this resolution alone.
ResolutionForgets(t, at) ==
    [t EXCEPT !.resolved = TRUE, !.breached = @ \cup Late(t, at),
              !.status = IF Late(t, at) # {} THEN "breached" ELSE "met"]

Resolution(t, at) ==
    LET breached == t.breached \cup Late(t, at)
    IN  [t EXCEPT !.resolved = TRUE, !.breached = breached,
                  !.status = IF breached # {} THEN "breached" ELSE "met"]

\* evaluate: the legs a check at `now' finds open.  A breach is found from the
\* due instant on, a warning is for a leg without a new breach.
Pending(t) == {l \in Legs : IF l = "first_response" THEN ~t.responded ELSE ~t.resolved}

NewBreaches(t, now) == {l \in Pending(t) \ t.breached : now >= DueAt[l]}

NewWarnings(t, now) ==
    {l \in Pending(t) \ (t.warned \cup NewBreaches(t, now)) : now >= WarnAt[l]}

Evaluated(t, now) ==
    [t EXCEPT !.breached = @ \cup NewBreaches(t, now),
              !.warned = @ \cup NewBreaches(t, now) \cup NewWarnings(t, now)]
=============================================================================
