------------------------- MODULE MCWebhookDelivery --------------------------
(***************************************************************************)
(* An instance of WebhookDelivery for TLC.  One event without a sector      *)
(* occurs; emit sends it to s1 only, since s2 is bound to a sector, EmitTo  *)
(* to either.  Deliveries share nothing but the workers, so one at a time    *)
(* shows what can happen to it.                                             *)
(***************************************************************************)
EXTENDS WebhookDelivery

CONSTANTS o1, s1, s2, r1

MCTypeOf == [o \in Occurrences |-> "message_created"]
MCSectorAt == [o \in Occurrences |-> NoSector]
MCWants == [s \in Subs |-> {"message_created"}]
MCScopes == [s \in Subs |-> IF s = s2 THEN {r1} ELSE {}]
=============================================================================
