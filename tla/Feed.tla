-------------------------------- MODULE Feed --------------------------------
(***************************************************************************)
(* What the clients of the realtime feed are promised, whatever buffers,     *)
(* drops and broken sockets lie in between: "no missed event stays hidden"   *)
(* (presenter/websocket/handler.go).  An event that was due to a connected   *)
(* client becomes known to it, from its frame or from a refetch, or the      *)
(* connection ends and the client refetches when it connects again.          *)
(***************************************************************************)
CONSTANTS Clients, Events

VARIABLES due,      \* events that reached the feed while the client followed it
          known,    \* events the client has seen or refetched
          on        \* its connection is up

vars == <<due, known, on>>

Init ==
    /\ due = [c \in Clients |-> {}]
    /\ known = [c \in Clients |-> {}]
    /\ on = [c \in Clients |-> FALSE]

Connect(c) ==
    /\ ~on[c]
    /\ on' = [on EXCEPT ![c] = TRUE]
    /\ UNCHANGED <<due, known>>

\* An event reaches those that follow its room, once.
Arrive(e) ==
    /\ \A c \in Clients : e \notin due[c]
    /\ \E to \in SUBSET {c \in Clients : on[c]} :
          due' = [c \in Clients |-> IF c \in to THEN due[c] \cup {e} ELSE due[c]]
    /\ UNCHANGED <<known, on>>

\* Nothing is made up: what becomes known was due.
Learn(c) ==
    /\ \E es \in SUBSET due[c] : known' = [known EXCEPT ![c] = @ \cup es]
    /\ UNCHANGED <<due, on>>

Disconnect(cs) ==
    /\ \A c \in cs : on[c]
    /\ on' = [c \in Clients |-> on[c] /\ c \notin cs]
    /\ UNCHANGED <<due, known>>

Next ==
    \/ \E c \in Clients : Connect(c) \/ Learn(c)
    \/ \E e \in Events : Arrive(e)
    \/ \E cs \in SUBSET Clients : Disconnect(cs)

\* An event that is due does not wait for ever on a connection that stays up.
Told(c, e) == (on[c] /\ e \in due[c]) ~> (e \in known[c] \/ ~on[c])

Spec == Init /\ [][Next]_vars /\ \A c \in Clients : \A e \in Events : Told(c, e)
=============================================================================
